---- MODULE Spec2Model ----
(***************************************************************************)
(* Model of the chat client's streaming core:                              *)
(*   - the job manager        (frontend/app/lib/job-manager.ts)            *)
(*   - the event decoder      (llm-ui-events.ts, src/unnamed/part_008)     *)
(*   - the stream parser      (frontend/app/lib/stream-parser.ts)          *)
(*   - the message lifecycle  (frontend/app/components/chat/ChatWindow.tsx)*)
(*                                                                         *)
(* Three specifications share the variables:                               *)
(*   SpecJM      any sequence of startJob/abortJob/finishJob/hasActiveJob  *)
(*   SpecParser  one stream, cut into chunks at arbitrary offsets, pushed  *)
(*               into one StreamParser and flushed                         *)
(*   SpecChat    the ChatWindow component with two generation requests     *)
(***************************************************************************)
EXTENDS Integers, Sequences, FiniteSets, TLC

(* ------------------------------------------------------------------ *)
(* Bounds                                                               *)
(* ------------------------------------------------------------------ *)

\* job-manager calls in one behaviour of SpecJM
MaxCalls == 5

\* pieces a stream of SpecParser is built from
MaxPieces == 4

\* generation requests in one behaviour of SpecChat
MaxRequests == 2

\* chunks the server delivers to one request in SpecChat
MaxChunks == 2

\* reset() calls in one behaviour of SpecReset
MaxResets == 1

\* startUpload calls in one behaviour of SpecUpload
MaxUploads == 2

\* progress events of one transfer in SpecUpload
MaxProgress == 2

\* chats in the stored array of SpecStore
MaxStoredChats == 1

\* messages of one stored chat in SpecStore
MaxStoredMessages == 1

\* loadChats calls in one behaviour of SpecStore
MaxLoads == 2

\* parts the line handed to parseLLMUIEvent is built from in SpecDecoder
MaxLineParts == 3

Sessions == {"s1", "s2"}

(* ------------------------------------------------------------------ *)
(* State                                                                *)
(* ------------------------------------------------------------------ *)

VARIABLES
    \* job-manager.ts
    currentChatJob,   \* the module-level record, or NoJob (null)
    aborted,          \* AbortControllers whose abort() has run (signal.aborted)
    notifications,    \* POST /abort requests issued by sendAbort, in order
    nextHandle,       \* identity of the next AbortController created
    jobEnd,           \* history: how each job ended ("abort" / "finish")
    lastCall,         \* history: the last job-manager call and its effects, in code order
    calls,            \* history: number of job-manager calls so far (bounded)
    \* stream-parser.ts (one StreamParser instance)
    buffer,           \* raw lookahead buffer
    textBuffer,       \* pending-text buffer
    \* the parser's environment
    stream,           \* the whole stream the server sends
    pos,              \* characters of it delivered so far
    frames,           \* history: every frame returned so far, in order
    pout,             \* the frames returned by the last push / flush
    flushes,          \* flush calls so far
    resetAt,          \* history: per reset call, pos and Len(frames) at the call
    cuts,             \* SpecScenario: the offsets at which the reader's chunks end
    api,              \* api.ts: one streamChat call (withRetry's position, attempt, signal)
    upl,              \* useSmartUpload.ts: activeUploadId and the startUpload calls
    store,            \* chat-store.ts: the localStorage item, and what loadChats returned
    \* llm-ui-events.ts, called on its own
    rawLine,          \* the argument of parseLLMUIEvent
    decoded,          \* its result ("-": not called yet)
    \* ChatWindow.tsx: React state
    messages,              \* the conversation's messages
    inlineMetadataFields,  \* TRUE when the metadata prompt is shown (non-null)
    netRateLimitedUntil,   \* the deadline, as the seconds from now until it; 0: null or passed
    \* ChatWindow.tsx: refs, shared by every request of the component
    textBufferRef,
    raf,                   \* rafRef and the animation-frame callback it names
    assistantIdRef,        \* 0 is null
    ignoreStreamRef,
    finalizedRef,
    jobFinishedRef,
    \* ChatWindow.tsx: the running generateAIResponse calls
    req,                   \* per request: where it is suspended, its controller, its assistantId
    dirty,                 \* messages changed since the effects last ran
    model,                 \* the selected model
    actor                  \* history: the request whose continuation took the last step (0: none)

jmVars == <<currentChatJob, aborted, notifications, nextHandle, jobEnd, lastCall, calls>>

parserVars == <<buffer, textBuffer, stream, pos, frames, pout, flushes, resetAt>>

decoderVars == <<rawLine, decoded>>

\* State of the specifications that exercise one function or module on its
\* own; constant in the others.
auxVars == <<cuts, api, upl, store>>

chatVars == <<messages, inlineMetadataFields, netRateLimitedUntil, textBufferRef, raf,
              assistantIdRef, ignoreStreamRef, finalizedRef, jobFinishedRef, req, dirty,
              model, actor>>

vars == <<currentChatJob, aborted, notifications, nextHandle, jobEnd, lastCall, calls,
          buffer, textBuffer, stream, pos, frames, pout, flushes, resetAt,
          rawLine, decoded, cuts, api, upl, store,
          messages, inlineMetadataFields, netRateLimitedUntil, textBufferRef, raf,
          assistantIdRef, ignoreStreamRef, finalizedRef, jobFinishedRef, req, dirty,
          model, actor>>

(* ------------------------------------------------------------------ *)
(* Initial values of the parts a specification leaves alone             *)
(* ------------------------------------------------------------------ *)

NoRaf == [id |-> 0, value |-> <<>>]

\* rx is history: the characters the reader delivered to the request that
\* belong to no event line.
IdleReq == [pc |-> "idle", controller |-> 0, assistantId |-> 0, chunks |-> 0, rx |-> <<>>]

InitChatVars ==
    /\ messages = <<>>
    /\ inlineMetadataFields = FALSE
    /\ netRateLimitedUntil = 0
    /\ textBufferRef = <<>>
    /\ raf = NoRaf
    /\ assistantIdRef = 0
    /\ ignoreStreamRef = FALSE
    /\ finalizedRef = FALSE
    /\ jobFinishedRef = FALSE
    /\ req = [r \in 1..MaxRequests |-> IdleReq]
    /\ dirty = FALSE
    /\ actor = 0

\* No streamChat call.  fetches and log are history: the requests issued and
\* the logEvent calls of withRetry.
NoApiCall ==
    [pc |-> "none", attempt |-> 0, aborted |-> FALSE, listening |-> FALSE,
     fetches |-> 0, log |-> <<>>]

\* One startUpload call: where it is, its uploadId, and (a bound) the
\* progress events its transfer has raised.
IdleUpload == [pc |-> "idle", uploadId |-> 0, events |-> 0]

\* The hook after mount.  last and cbs are history: the last step taken and
\* the callbacks it invoked, each with the call it was invoked for.
NoUploads ==
    [activeUploadId |-> 0,
     up |-> [u \in 1..MaxUploads |-> IdleUpload],
     last |-> [op |-> "none", u |-> 0],
     cbs |-> <<>>]

\* localStorage without the key.  stored is history (the item before the
\* first load), returned the results of the loadChats calls; loads counts
\* them (Date.now() differs from call to call) and uuids the
\* crypto.randomUUID() calls.
EmptyStore ==
    [item |-> [kind |-> "missing", chats |-> <<>>],
     stored |-> [kind |-> "missing", chats |-> <<>>],
     returned |-> <<>>, loads |-> 0, uuids |-> 0]

InitAux ==
    /\ cuts = {}
    /\ api = NoApiCall
    /\ upl = NoUploads
    /\ store = EmptyStore

InitNoDecoder ==
    /\ rawLine = <<>>
    /\ decoded = "-"

InitNoParser ==
    /\ buffer = <<>>
    /\ textBuffer = <<>>
    /\ stream = <<>>
    /\ pos = 0
    /\ frames = <<>>
    /\ pout = <<>>
    /\ flushes = 0
    /\ resetAt = <<>>

(* ------------------------------------------------------------------ *)
(* Job manager                                                          *)
(* ------------------------------------------------------------------ *)

NoJob == [controller |-> 0, sessionId |-> "-", active |-> FALSE]

\* One observable effect of a job-manager call.
Eff(e, h, s) == [e |-> e, h |-> h, s |-> s]

NoCall == [name |-> "none", mut |-> "none", prev |-> NoJob, effects |-> <<>>, result |-> FALSE]

\* The job manager's state as one value, so that a handler calling several
\* job-manager functions in a row can be composed.
JMState ==
    [currentChatJob |-> currentChatJob, aborted |-> aborted,
     notifications |-> notifications, nextHandle |-> nextHandle,
     jobEnd |-> jobEnd, lastCall |-> lastCall]

InitJMState ==
    [currentChatJob |-> NoJob, aborted |-> {}, notifications |-> <<>>,
     nextHandle |-> 1, jobEnd |-> <<>>, lastCall |-> NoCall]

\* Entry of an exported function: the history starts a new call record.
\* `mut` keeps the name of the last call other than hasActiveJob.
beginCall(jm, name) ==
    [jm EXCEPT !.lastCall = [name |-> name,
                             mut |-> IF name = "hasActiveJob" THEN @.mut ELSE name,
                             prev |-> jm.currentChatJob,
                             effects |-> <<>>, result |-> FALSE]]

effect(jm, e) == [jm EXCEPT !.lastCall.effects = Append(@, e)]

\* controller.abort(reason); an exception it raises is ignored.
controllerAbort(jm, job) ==
    effect([jm EXCEPT !.aborted = @ \cup {job.controller}],
           Eff("abort", job.controller, job.sessionId))

\* sendAbort: the POST is issued synchronously by the call (the async function
\* runs up to its first await); its outcome arrives later (SendAbortSettle) and
\* a failure is swallowed.  `job` is history: the body carries only session_id.
sendAbort(jm, job) ==
    effect([jm EXCEPT !.notifications =
                Append(@, [sessionId |-> job.sessionId, job |-> job.controller,
                           state |-> "pending"])],
           Eff("notify", job.controller, job.sessionId))

\* currentChatJob.active = false; currentChatJob = null
clearJob(jm, how) ==
    LET job == jm.currentChatJob
    IN  effect([jm EXCEPT !.currentChatJob = NoJob,
                          !.jobEnd = Append(@, [h |-> job.controller, how |-> how])],
               Eff("clear", job.controller, job.sessionId))

abortJobInner_NoNotify(jm) ==
    IF jm.currentChatJob = NoJob THEN jm
    ELSE clearJob(controllerAbort(jm, jm.currentChatJob), "abort")

abortJobInner_AlwaysNotify(jm) ==
    LET job == jm.currentChatJob
    IN  IF job = NoJob THEN sendAbort(jm, job)
        ELSE clearJob(sendAbort(controllerAbort(jm, job), job), "abort")

abortJobInner_Awaits(jm) ==
    IF jm.currentChatJob = NoJob THEN jm
    ELSE LET job == jm.currentChatJob
         IN  sendAbort(controllerAbort(jm, job), job)

abortJobInner(jm) ==
    IF jm.currentChatJob = NoJob THEN jm
    ELSE LET job == jm.currentChatJob
         IN  clearJob(sendAbort(controllerAbort(jm, job), job), "abort")

abortJob(jm) == abortJobInner(beginCall(jm, "abortJob"))

installJob_ReusesController(jm, sessionId) ==
    LET h == IF jm.lastCall.prev # NoJob THEN jm.lastCall.prev.controller ELSE jm.nextHandle
        a == effect([jm EXCEPT !.nextHandle = @ + 1,
                               !.currentChatJob = [controller |-> h, sessionId |-> sessionId,
                                                   active |-> TRUE]],
                    Eff("install", h, sessionId))
    IN  effect(a, Eff("return", h, sessionId))

\* new AbortController(); currentChatJob = {...}; return controller
installJob(jm, sessionId) ==
    LET h == jm.nextHandle
        a == effect([jm EXCEPT !.nextHandle = h + 1,
                               !.currentChatJob = [controller |-> h, sessionId |-> sessionId,
                                                   active |-> TRUE]],
                    Eff("install", h, sessionId))
    IN  effect(a, Eff("return", h, sessionId))

startJob_NoAbort(jm, sessionId) ==
    installJob(beginCall(jm, "startJob"), sessionId)

startJob(jm, sessionId) ==
    LET c == beginCall(jm, "startJob")
        a == IF c.currentChatJob # NoJob THEN abortJobInner(c) ELSE c
    IN  installJob(a, sessionId)

finishJob_Notifies(jm) ==
    LET c == beginCall(jm, "finishJob")
    IN  IF c.currentChatJob = NoJob THEN c
        ELSE clearJob(sendAbort(c, c.currentChatJob), "finish")

finishJob_KeepsRecord(jm) == beginCall(jm, "finishJob")

finishJob(jm) ==
    LET c == beginCall(jm, "finishJob")
    IN  IF c.currentChatJob = NoJob THEN c ELSE clearJob(c, "finish")

hasActiveJob(jm) == jm.currentChatJob # NoJob /\ jm.currentChatJob.active

SetJM(jm) ==
    /\ currentChatJob' = jm.currentChatJob
    /\ aborted' = jm.aborted
    /\ notifications' = jm.notifications
    /\ nextHandle' = jm.nextHandle
    /\ jobEnd' = jm.jobEnd
    /\ lastCall' = jm.lastCall

(* ------------------------------------------------------------------ *)
(* SpecJM: any sequence of job-manager calls                            *)
(* ------------------------------------------------------------------ *)

InitJM ==
    /\ currentChatJob = InitJMState.currentChatJob
    /\ aborted = InitJMState.aborted
    /\ notifications = InitJMState.notifications
    /\ nextHandle = InitJMState.nextHandle
    /\ jobEnd = InitJMState.jobEnd
    /\ lastCall = InitJMState.lastCall
    /\ calls = 0
    /\ buffer = <<>>
    /\ textBuffer = <<>>
    /\ stream = <<>>
    /\ pos = 0
    /\ frames = <<>>
    /\ pout = <<>>
    /\ flushes = 0
    /\ resetAt = <<>>
    /\ InitChatVars
    /\ InitAux
    /\ InitNoDecoder
    /\ model = "base"

StartJobCall ==
    \E s \in Sessions :
        /\ calls < MaxCalls
        /\ SetJM(startJob(JMState, s))
        /\ calls' = calls + 1
        /\ UNCHANGED parserVars
        /\ UNCHANGED decoderVars
        /\ UNCHANGED chatVars
        /\ UNCHANGED auxVars

AbortJobCall ==
    /\ calls < MaxCalls
    /\ SetJM(abortJob(JMState))
    /\ calls' = calls + 1
    /\ UNCHANGED parserVars
    /\ UNCHANGED decoderVars
    /\ UNCHANGED chatVars
    /\ UNCHANGED auxVars

FinishJobCall ==
    /\ calls < MaxCalls
    /\ SetJM(finishJob(JMState))
    /\ calls' = calls + 1
    /\ UNCHANGED parserVars
    /\ UNCHANGED decoderVars
    /\ UNCHANGED chatVars
    /\ UNCHANGED auxVars

HasActiveJobCall ==
    /\ calls < MaxCalls
    /\ SetJM([beginCall(JMState, "hasActiveJob") EXCEPT
                 !.lastCall.result = hasActiveJob(JMState)])
    /\ calls' = calls + 1
    /\ UNCHANGED parserVars
    /\ UNCHANGED decoderVars
    /\ UNCHANGED chatVars
    /\ UNCHANGED auxVars

\* The POST issued by sendAbort completes or fails; the catch swallows a failure.
SendAbortSettle ==
    \E i \in 1..Len(notifications), outcome \in {"ok", "failed"} :
        /\ notifications[i].state = "pending"
        /\ notifications' = [notifications EXCEPT ![i].state = outcome]
        /\ UNCHANGED <<currentChatJob, aborted, nextHandle, jobEnd, lastCall, calls>>
        /\ UNCHANGED parserVars
        /\ UNCHANGED decoderVars
        /\ UNCHANGED chatVars
        /\ UNCHANGED auxVars

NextJM ==
    \/ StartJobCall
    \/ AbortJobCall
    \/ FinishJobCall
    \/ HasActiveJobCall
    \/ SendAbortSettle

SpecJM == InitJM /\ [][NextJM]_vars

(* ------------------------------------------------------------------ *)
(* Strings                                                              *)
(*                                                                      *)
(* A string is a sequence of cells <<ch, tag>>: ch is the character,    *)
(* tag is history (where the character came from: its offset in the     *)
(* stream, or the request that delivered it).  The code sees only ch.   *)
(* Besides single characters a cell may hold one of the tokens          *)
(* "<PROGRESS>", "<UNKNOWN>", ...: the member list of a JSON object     *)
(* with that "type", text that holds no marker, newline or brace.       *)
(* ------------------------------------------------------------------ *)

NL == "\n"

Whitespace == {" ", NL}

\* UI_EVENT_PREFIX = "__UI_EVENT__"
UI_EVENT_PREFIX == <<"_", "_", "U", "I", "_", "E", "V", "E", "N", "T", "_", "_">>

Chars(cs) == [i \in 1..Len(cs) |-> cs[i][1]]

SetMin(S) == CHOOSE x \in S : \A y \in S : x <= y

\* String.prototype.indexOf on the characters: 0-based, -1 when absent.
IndexOf(s, needle) ==
    LET hits == {i \in 0..(Len(s) - Len(needle)) :
                    SubSeq(s, i + 1, i + Len(needle)) = needle}
    IN  IF hits = {} THEN -1 ELSE SetMin(hits)

\* String.prototype.slice(from) and slice(0, to), 0-based
SliceFrom(cs, from) == SubSeq(cs, from + 1, Len(cs))

SliceTo(cs, to) == SubSeq(cs, 1, to)

StartsWith(s, prefix) ==
    Len(s) >= Len(prefix) /\ SubSeq(s, 1, Len(prefix)) = prefix

RECURSIVE TrimStart(_)
TrimStart(s) ==
    IF Len(s) > 0 /\ s[1] \in Whitespace THEN TrimStart(Tail(s)) ELSE s

RECURSIVE TrimEnd(_)
TrimEnd(s) ==
    IF Len(s) > 0 /\ s[Len(s)] \in Whitespace THEN TrimEnd(SubSeq(s, 1, Len(s) - 1)) ELSE s

(* ------------------------------------------------------------------ *)
(* Event decoder (llm-ui-events.ts)                                     *)
(* ------------------------------------------------------------------ *)

EventTypes ==
    {"SYSTEM_MESSAGE", "REQUEST_METADATA", "METADATA_CONFIRMED", "PROGRESS",
     "MODEL_STAGE", "ERROR", "NET_RATE_LIMITED", "SOURCES", "ANSWER_CONFIDENCE"}

\* The "type" a member-list token stands for.
TokenType(tok) ==
    CASE tok = "<PROGRESS>" -> "PROGRESS"
      [] tok = "<ERROR>" -> "ERROR"
      [] tok = "<REQUEST_METADATA>" -> "REQUEST_METADATA"
      [] tok = "<NET_RATE_LIMITED>" -> "NET_RATE_LIMITED"
      [] tok = "<SYSTEM_MESSAGE>" -> "SYSTEM_MESSAGE"
      [] tok = "<METADATA_CONFIRMED>" -> "METADATA_CONFIRMED"
      [] tok = "<MODEL_STAGE>" -> "MODEL_STAGE"
      [] tok = "<SOURCES>" -> "SOURCES"
      [] tok = "<ANSWER_CONFIDENCE>" -> "ANSWER_CONFIDENCE"
      [] tok = "<PROGRESS:no-value>" -> "PROGRESS"
      [] tok = "<ERROR:no-message>" -> "ERROR"
      [] tok = "<REQUEST_METADATA:fields-no-array>" -> "REQUEST_METADATA"
      [] tok = "<ANSWER_CONFIDENCE:level-other>" -> "ANSWER_CONFIDENCE"
      [] tok = "<UNKNOWN>" -> "UNKNOWN_KIND"
      [] tok = "<progress>" -> "progress"
      [] tok = "<type:5>" -> "nonstring"
      [] OTHER -> "invalid"

\* JSON.parse on the characters s, for the texts the alphabet can spell:
\* "{" member-list "}" with optional whitespace around it parses to an object
\* with the token's type, "{}" to an object without a type ("notype"),
\* everything else throws ("invalid").
JsonParse(s) ==
    LET body == TrimEnd(TrimStart(s))
    IN  IF body = <<"{", "}">> THEN "notype"
        ELSE IF Len(body) = 3 /\ body[1] = "{" /\ body[3] = "}"
             THEN TokenType(body[2])
             ELSE "invalid"

\* The member lists that hold every field their event type declares as
\* required, with the declared type.
DeclaredTokens ==
    {"<SYSTEM_MESSAGE>", "<REQUEST_METADATA>", "<METADATA_CONFIRMED>", "<PROGRESS>",
     "<MODEL_STAGE>", "<ERROR>", "<NET_RATE_LIMITED>", "<SOURCES>", "<ANSWER_CONFIDENCE>"}

isLLMUIEvent_AnyString(type) == type \notin {"notype", "nonstring"}

\* isLLMUIEvent on an object, of which it reads the type only: "notype" when
\* the object has none, "nonstring" when it is not a string.
isLLMUIEvent(type) == type \in EventTypes

parseLLMUIEvent_AnyOffset(line) ==
    IF Len(line) = 0 THEN "null"
    ELSE IF IndexOf(line, UI_EVENT_PREFIX) = -1 THEN "null"
    ELSE LET jsonPart == SliceFrom(line, IndexOf(line, UI_EVENT_PREFIX) + Len(UI_EVENT_PREFIX))
             trimmed  == TrimStart(jsonPart)
         IN  IF ~StartsWith(trimmed, <<"{">>) THEN "null"
             ELSE LET parsed == JsonParse(trimmed)
                  IN  IF parsed = "invalid" THEN "null"
                      ELSE IF isLLMUIEvent(parsed) THEN parsed ELSE "null"

\* The decoded event's type, or "null".  JSON.parse throwing ("invalid") is
\* caught and gives null.
parseLLMUIEvent(line) ==
    IF Len(line) = 0 THEN "null"
    ELSE IF ~StartsWith(line, UI_EVENT_PREFIX) THEN "null"
    ELSE LET jsonPart == SliceFrom(line, Len(UI_EVENT_PREFIX))
             trimmed  == TrimStart(jsonPart)
         IN  IF ~StartsWith(trimmed, <<"{">>) THEN "null"
             ELSE LET parsed == JsonParse(trimmed)
                  IN  IF parsed = "invalid" THEN "null"
                      ELSE IF isLLMUIEvent(parsed) THEN parsed ELSE "null"

(* ------------------------------------------------------------------ *)
(* Stream parser (stream-parser.ts)                                     *)
(* ------------------------------------------------------------------ *)

FlushThreshold == 20

BreakChars == Whitespace \cup {".", ",", "!", "?"}

\* A text frame; an event frame carries the decoded type, and (history) the
\* cells of the line it was decoded from.
TextFrame(cs) == [type |-> "text", value |-> cs, evt |-> "-"]

EventFrame(evt, line) == [type |-> "event", value |-> line, evt |-> evt]

shouldFlush_BreakOnly(tb) ==
    LET t == TrimEnd(Chars(tb))
    IN  \/ Len(t) < Len(tb)
        \/ Len(t) > 0 /\ t[Len(t)] \in BreakChars

shouldFlush_LengthOnly(tb) == Len(tb) > FlushThreshold

\* shouldFlush: textBuffer.length > 20 || /[\s.,!?]\s*$/.test(textBuffer)
shouldFlush(tb) ==
    \/ Len(tb) > FlushThreshold
    \/ LET t == TrimEnd(Chars(tb))
       IN  \/ Len(t) < Len(tb)
           \/ Len(t) > 0 /\ t[Len(t)] \in BreakChars

lineFrame_StripsMarker(line) ==
    LET evt == parseLLMUIEvent(Chars(line))
    IN  IF evt # "null" THEN EventFrame(evt, line)
        ELSE TextFrame(SliceFrom(line, Len(UI_EVENT_PREFIX)))

\* The frame pushed for a complete marker line.
lineFrame(line) ==
    LET evt == parseLLMUIEvent(Chars(line))
    IN  IF evt # "null" THEN EventFrame(evt, line) ELSE TextFrame(line)

\* The while (true) loop of push on st = [buffer, textBuffer, out].
RECURSIVE pushLoop(_)
pushLoop(st) ==
    LET eventIdx == IndexOf(Chars(st.buffer), UI_EVENT_PREFIX)
    IN  IF eventIdx = -1
        THEN LET tb == st.textBuffer \o st.buffer
             IN  IF shouldFlush(tb)
                 THEN [buffer |-> <<>>, textBuffer |-> <<>>,
                       out |-> Append(st.out, TextFrame(tb))]
                 ELSE [buffer |-> <<>>, textBuffer |-> tb, out |-> st.out]
        ELSE LET s1 == IF eventIdx > 0
                       THEN [buffer |-> SliceFrom(st.buffer, eventIdx),
                             textBuffer |-> <<>>,
                             out |-> Append(st.out,
                                       TextFrame(st.textBuffer \o SliceTo(st.buffer, eventIdx)))]
                       ELSE st
                 newlineIdx == IndexOf(Chars(s1.buffer), <<NL>>)
             IN  IF newlineIdx = -1 THEN s1
                 ELSE LET line == SliceTo(s1.buffer, newlineIdx)
                      IN  pushLoop([buffer |-> SliceFrom(s1.buffer, newlineIdx + 1),
                                    textBuffer |-> s1.textBuffer,
                                    out |-> Append(s1.out, lineFrame(line))])

push_EmitsPartial(ps, rawChunk) ==
    IF Len(rawChunk) = 0
    THEN [buffer |-> ps.buffer, textBuffer |-> ps.textBuffer, out |-> <<>>]
    ELSE LET r == pushLoop([buffer |-> ps.buffer \o rawChunk, textBuffer |-> ps.textBuffer,
                            out |-> <<>>])
         IN  IF Len(r.buffer) > Len(UI_EVENT_PREFIX)
             THEN [buffer |-> SliceTo(r.buffer, Len(UI_EVENT_PREFIX)),
                   textBuffer |-> r.textBuffer,
                   out |-> Append(r.out, TextFrame(SliceFrom(r.buffer, Len(UI_EVENT_PREFIX))))]
             ELSE r

push_HoldsTextRaw(ps, rawChunk) ==
    IF Len(rawChunk) = 0
    THEN [buffer |-> ps.buffer, textBuffer |-> ps.textBuffer, out |-> <<>>]
    ELSE LET r == pushLoop([buffer |-> ps.buffer \o rawChunk, textBuffer |-> ps.textBuffer,
                            out |-> <<>>])
         IN  IF Len(r.buffer) = 0 /\ Len(r.textBuffer) > 0
             THEN [buffer |-> r.textBuffer, textBuffer |-> <<>>, out |-> r.out]
             ELSE r

push_EmptyEmitsPending(ps, rawChunk) ==
    IF Len(rawChunk) = 0
    THEN [buffer |-> ps.buffer, textBuffer |-> <<>>,
          out |-> IF Len(ps.textBuffer) > 0 THEN <<TextFrame(ps.textBuffer)>> ELSE <<>>]
    ELSE pushLoop([buffer |-> ps.buffer \o rawChunk, textBuffer |-> ps.textBuffer,
                   out |-> <<>>])

\* push(rawChunk) on ps = [buffer, textBuffer]; the result adds out, the
\* frames returned.
push(ps, rawChunk) ==
    IF Len(rawChunk) = 0
    THEN [buffer |-> ps.buffer, textBuffer |-> ps.textBuffer, out |-> <<>>]
    ELSE pushLoop([buffer |-> ps.buffer \o rawChunk, textBuffer |-> ps.textBuffer,
                   out |-> <<>>])

flush_KeepsBuffers(ps) ==
    LET f1 == IF Len(ps.textBuffer) > 0 THEN <<TextFrame(ps.textBuffer)>> ELSE <<>>
        f2 == IF Len(ps.buffer) > 0 THEN <<TextFrame(ps.buffer)>> ELSE <<>>
    IN  [buffer |-> ps.buffer, textBuffer |-> ps.textBuffer, out |-> f1 \o f2]

flush(ps) ==
    LET f1 == IF Len(ps.textBuffer) > 0 THEN <<TextFrame(ps.textBuffer)>> ELSE <<>>
        f2 == IF Len(ps.buffer) > 0 THEN <<TextFrame(ps.buffer)>> ELSE <<>>
    IN  [buffer |-> <<>>, textBuffer |-> <<>>, out |-> f1 \o f2]

reset_KeepsPending(ps) == [buffer |-> <<>>, textBuffer |-> ps.textBuffer, out |-> <<>>]

reset(ps) == [buffer |-> <<>>, textBuffer |-> <<>>, out |-> <<>>]

NewParser == [buffer |-> <<>>, textBuffer |-> <<>>]

ParserState == [buffer |-> buffer, textBuffer |-> textBuffer]

(* ------------------------------------------------------------------ *)
(* SpecParser: one stream, any chunking, then flush                     *)
(* ------------------------------------------------------------------ *)

ValidBody == <<"{", "<PROGRESS>", "}">>

UnknownBody == <<"{", "<UNKNOWN>", "}">>

Pieces == {UI_EVENT_PREFIX, ValidBody, UnknownBody, <<NL>>, <<"a">>, <<" ">>}

RECURSIVE StreamsOf(_)
StreamsOf(n) ==
    IF n = 0 THEN {<<>>}
    ELSE LET S == StreamsOf(n - 1)
         IN  S \cup {s \o p : s \in S, p \in Pieces}

\* Cells from + 1 .. to of the stream, tagged with their offsets.
StreamCells(s, from, to) == [i \in 1..(to - from) |-> <<s[from + i], from + i>>]

InitParser ==
    /\ stream \in StreamsOf(MaxPieces)
    /\ pos = 0
    /\ buffer = <<>>
    /\ textBuffer = <<>>
    /\ frames = <<>>
    /\ pout = <<>>
    /\ flushes = 0
    /\ resetAt = <<>>
    /\ currentChatJob = InitJMState.currentChatJob
    /\ aborted = InitJMState.aborted
    /\ notifications = InitJMState.notifications
    /\ nextHandle = InitJMState.nextHandle
    /\ jobEnd = InitJMState.jobEnd
    /\ lastCall = InitJMState.lastCall
    /\ calls = 0
    /\ InitChatVars
    /\ InitAux
    /\ InitNoDecoder
    /\ model = "base"

SetParser(r) ==
    /\ buffer' = r.buffer
    /\ textBuffer' = r.textBuffer
    /\ pout' = r.out
    /\ frames' = frames \o r.out

\* The reader delivers the next n characters and the loop pushes them.
PushChunk ==
    \E n \in 1..(Len(stream) - pos) :
        /\ flushes = 0
        /\ SetParser(push(ParserState, StreamCells(stream, pos, pos + n)))
        /\ pos' = pos + n
        /\ UNCHANGED <<stream, flushes, resetAt>>
        /\ UNCHANGED jmVars
        /\ UNCHANGED decoderVars
        /\ UNCHANGED chatVars
        /\ UNCHANGED auxVars

\* push("") / push(null) / push(undefined)
PushEmpty ==
    /\ flushes = 0
    /\ SetParser(push(ParserState, <<>>))
    /\ UNCHANGED <<stream, pos, flushes, resetAt>>
    /\ UNCHANGED jmVars
    /\ UNCHANGED decoderVars
    /\ UNCHANGED chatVars
    /\ UNCHANGED auxVars

\* The stream has ended: flush (and, to observe idempotence, once more).
Flush ==
    /\ pos = Len(stream)
    /\ flushes < 2
    /\ SetParser(flush(ParserState))
    /\ flushes' = flushes + 1
    /\ UNCHANGED <<stream, pos, resetAt>>
    /\ UNCHANGED jmVars
    /\ UNCHANGED decoderVars
    /\ UNCHANGED chatVars
    /\ UNCHANGED auxVars

NextParser ==
    \/ PushChunk
    \/ PushEmpty
    \/ Flush

SpecParser == InitParser /\ [][NextParser]_vars

(* ------------------------------------------------------------------ *)
(* SpecDecoder: parseLLMUIEvent called on one line                      *)
(* ------------------------------------------------------------------ *)

\* "__ui_event__", a marker in the wrong case
LowerMarker == <<"_", "_", "u", "i", "_", "e", "v", "e", "n", "t", "_", "_">>

Tokens ==
    DeclaredTokens \cup
    {"<PROGRESS:no-value>", "<ERROR:no-message>", "<REQUEST_METADATA:fields-no-array>",
     "<ANSWER_CONFIDENCE:level-other>", "<UNKNOWN>", "<progress>", "<type:5>"}

\* What a line is made of: markers, whole objects, and loose characters.
LineParts ==
    {UI_EVENT_PREFIX, LowerMarker, <<"{", "}">>, <<"{">>, <<"}">>, <<" ">>, <<"a">>}
    \cup {<<"{", tok, "}">> : tok \in Tokens}

RECURSIVE LinesOf(_)
LinesOf(n) ==
    IF n = 0 THEN {<<>>}
    ELSE LET S == LinesOf(n - 1)
         IN  S \cup {s \o p : s \in S, p \in LineParts}

InitDecoder ==
    /\ rawLine \in LinesOf(MaxLineParts)
    /\ decoded = "-"
    /\ InitNoParser
    /\ currentChatJob = InitJMState.currentChatJob
    /\ aborted = InitJMState.aborted
    /\ notifications = InitJMState.notifications
    /\ nextHandle = InitJMState.nextHandle
    /\ jobEnd = InitJMState.jobEnd
    /\ lastCall = InitJMState.lastCall
    /\ calls = 0
    /\ InitChatVars
    /\ InitAux
    /\ model = "base"

Decode ==
    /\ decoded = "-"
    /\ decoded' = parseLLMUIEvent(rawLine)
    /\ UNCHANGED rawLine
    /\ UNCHANGED jmVars
    /\ UNCHANGED parserVars
    /\ UNCHANGED chatVars
    /\ UNCHANGED auxVars

NextDecoder == Decode

SpecDecoder == InitDecoder /\ [][NextDecoder]_vars

(* ------------------------------------------------------------------ *)
(* SpecReset: SpecParser, with reset() called between the other calls   *)
(* ------------------------------------------------------------------ *)

Reset ==
    /\ Len(resetAt) < MaxResets
    /\ SetParser(reset(ParserState))
    /\ resetAt' = Append(resetAt, [pos |-> pos, nframes |-> Len(frames)])
    /\ UNCHANGED <<stream, pos, flushes>>
    /\ UNCHANGED jmVars
    /\ UNCHANGED decoderVars
    /\ UNCHANGED chatVars
    /\ UNCHANGED auxVars

NextReset ==
    \/ PushChunk
    \/ PushEmpty
    \/ Flush
    \/ Reset

SpecReset == InitParser /\ [][NextReset]_vars

(* ------------------------------------------------------------------ *)
(* SpecScenario: the text of scenario A, read in planned chunks          *)
(* ------------------------------------------------------------------ *)

\* "Hello world" + a PROGRESS line + " End."
ScenarioStream ==
    <<"H", "e", "l", "l", "o", " ", "w", "o", "r", "l", "d">>
    \o UI_EVENT_PREFIX \o <<"{", "<PROGRESS>", "}", NL>>
    \o <<" ", "E", "n", "d", ".">>

\* Where a chunk of the stream may end, besides the end of the stream.
CutCandidates == {3, 6, 9, 11, 15, 23, 27, 29}

InitScenario ==
    /\ stream = ScenarioStream
    /\ cuts \in {S \cup {Len(ScenarioStream)} : S \in SUBSET CutCandidates}
    /\ pos = 0
    /\ buffer = <<>>
    /\ textBuffer = <<>>
    /\ frames = <<>>
    /\ pout = <<>>
    /\ flushes = 0
    /\ resetAt = <<>>
    /\ currentChatJob = InitJMState.currentChatJob
    /\ aborted = InitJMState.aborted
    /\ notifications = InitJMState.notifications
    /\ nextHandle = InitJMState.nextHandle
    /\ jobEnd = InitJMState.jobEnd
    /\ lastCall = InitJMState.lastCall
    /\ calls = 0
    /\ InitChatVars
    /\ InitNoDecoder
    /\ api = NoApiCall
    /\ upl = NoUploads
    /\ store = EmptyStore
    /\ model = "base"

\* The reader delivers the stream up to the next planned cut.
PushPlanned ==
    /\ flushes = 0
    /\ pos < Len(stream)
    /\ LET to == SetMin({c \in cuts : c > pos})
       IN  /\ SetParser(push(ParserState, StreamCells(stream, pos, to)))
           /\ pos' = to
    /\ UNCHANGED <<stream, flushes, resetAt, cuts, api, upl, store>>
    /\ UNCHANGED jmVars
    /\ UNCHANGED decoderVars
    /\ UNCHANGED chatVars

NextScenario ==
    \/ PushPlanned
    \/ Flush

SpecScenario == InitScenario /\ [][NextScenario]_vars

(* ------------------------------------------------------------------ *)
(* SpecRetry: one streamChat call (api.ts)                              *)
(* ------------------------------------------------------------------ *)

DEFAULT_RETRIES == 2

\* What makes an attempt fail without an abort: fetch rejects, status 429,
\* another status that is not ok, a response without body.
FailureKinds == {"network", "429", "http", "nobody"}

catchBlock_IgnoresAbort(a, isAbortError, reason) ==
    IF a.attempt >= DEFAULT_RETRIES
    THEN [a EXCEPT !.pc = "rejected",
                   !.log = Append(@, [event |-> "api_failure", reason |-> reason])]
    ELSE [a EXCEPT !.attempt = @ + 1,
                   !.log = Append(@, [event |-> "api_retry", reason |-> reason]),
                   !.pc = "sleep",
                   !.listening = ~a.aborted]

\* withRetry's catch block, up to the await of sleep.  sleep registers its
\* abort listener on the signal; a signal that is aborted already never fires
\* it (listening is FALSE then).
catchBlock(a, isAbortError, reason) ==
    IF a.aborted \/ isAbortError THEN [a EXCEPT !.pc = "rejected"]
    ELSE IF a.attempt >= DEFAULT_RETRIES
    THEN [a EXCEPT !.pc = "rejected",
                   !.log = Append(@, [event |-> "api_failure", reason |-> reason])]
    ELSE [a EXCEPT !.attempt = @ + 1,
                   !.log = Append(@, [event |-> "api_retry", reason |-> reason]),
                   !.pc = "sleep",
                   !.listening = ~a.aborted]

\* streamChat has been called and its first fetch issued, with a signal that
\* may be aborted already.
InitRetry ==
    /\ \E ab \in BOOLEAN :
          api = [NoApiCall EXCEPT !.pc = "fetch", !.fetches = 1, !.aborted = ab]
    /\ cuts = {}
    /\ upl = NoUploads
    /\ store = EmptyStore
    /\ InitNoParser
    /\ InitNoDecoder
    /\ currentChatJob = InitJMState.currentChatJob
    /\ aborted = InitJMState.aborted
    /\ notifications = InitJMState.notifications
    /\ nextHandle = InitJMState.nextHandle
    /\ jobEnd = InitJMState.jobEnd
    /\ lastCall = InitJMState.lastCall
    /\ calls = 0
    /\ InitChatVars
    /\ model = "base"

RetryFrame ==
    /\ UNCHANGED <<cuts, upl, store>>
    /\ UNCHANGED jmVars
    /\ UNCHANGED parserVars
    /\ UNCHANGED decoderVars
    /\ UNCHANGED chatVars

\* The attempt succeeds: the response is ok and has a body.
FetchOk ==
    /\ api.pc = "fetch"
    /\ ~api.aborted
    /\ api' = [api EXCEPT !.pc = "resolved"]
    /\ RetryFrame

\* The attempt fails for another reason than the abort.
FetchError ==
    \E kind \in FailureKinds :
        /\ api.pc = "fetch"
        /\ api' = catchBlock(api, FALSE, kind)
        /\ RetryFrame

\* fetch rejects with AbortError because the signal is aborted.
FetchAborted ==
    /\ api.pc = "fetch"
    /\ api.aborted
    /\ api' = catchBlock(api, TRUE, "abort")
    /\ RetryFrame

\* The back-off timer fires (the abort listener has not cleared it): the
\* loop calls fn again.
SleepElapsed ==
    /\ api.pc = "sleep"
    /\ ~(api.listening /\ api.aborted)
    /\ api' = [api EXCEPT !.pc = "fetch", !.fetches = @ + 1]
    /\ RetryFrame

\* The abort listener of sleep has rejected: the await in the catch block
\* throws out of withRetry.
SleepAborted ==
    /\ api.pc = "sleep"
    /\ api.listening
    /\ api.aborted
    /\ api' = [api EXCEPT !.pc = "rejected"]
    /\ RetryFrame

\* The job's controller is aborted.
SignalAbort ==
    /\ ~api.aborted
    /\ api' = [api EXCEPT !.aborted = TRUE]
    /\ RetryFrame

NextRetry ==
    \/ FetchOk
    \/ FetchError
    \/ FetchAborted
    \/ SleepElapsed
    \/ SleepAborted
    \/ SignalAbort

SpecRetry == InitRetry /\ [][NextRetry]_vars

(* ------------------------------------------------------------------ *)
(* SpecUpload: the useSmartUpload hook with MaxUploads startUpload calls *)
(* ------------------------------------------------------------------ *)

\* A callback invoked for startUpload call u.
Cb(kind, status, u) == [kind |-> kind, status |-> status, u |-> u]

\* uploadId !== activeUploadId.current
stale(s, u) == s.up[u].uploadId # s.activeUploadId

step(s, op, u, cbs) == [s EXCEPT !.last = [op |-> op, u |-> u], !.cbs = cbs]

\* startUpload up to its await: a new generation, then the first progress
\* callback.
startUpload(s, u) ==
    LET id == s.activeUploadId + 1
        s1 == [s EXCEPT !.activeUploadId = id,
                        !.up[u] = [pc |-> "uploading", uploadId |-> id, events |-> 0]]
    IN  step(s1, "start", u, <<Cb("onProgress", "uploading", u)>>)

\* The onProgress handed to uploadPdfWithProgress, called with pct.
transferProgress(s, u, pct) ==
    LET s1 == [s EXCEPT !.up[u].events = @ + 1]
    IN  IF stale(s1, u) THEN step(s1, "progress", u, <<>>)
        ELSE IF pct >= 100
             THEN step(s1, "progress", u, <<Cb("onProgress", "processing", u)>>)
             ELSE step(s1, "progress", u, <<Cb("onProgress", "uploading", u)>>)

uploadResolved_NoGuard(s, u, nextAction) ==
    LET s1 == [s EXCEPT !.up[u].pc = "ended"]
        status == IF nextAction \in {"WAIT_FOR_METADATA", "READY_FOR_PROCESSING"}
                  THEN "processing" ELSE "done"
    IN  step(s1, "resolved", u, <<Cb("onProgress", status, u), Cb("onSuccess", "-", u)>>)

\* The code after the await, when uploadPdfWithProgress resolves.
uploadResolved(s, u, nextAction) ==
    LET s1 == [s EXCEPT !.up[u].pc = "ended"]
        status == IF nextAction \in {"WAIT_FOR_METADATA", "READY_FOR_PROCESSING"}
                  THEN "processing" ELSE "done"
    IN  IF stale(s1, u) THEN step(s1, "resolved", u, <<>>)
        ELSE step(s1, "resolved", u,
                  <<Cb("onProgress", status, u), Cb("onSuccess", "-", u)>>)

\* The catch block, when uploadPdfWithProgress rejects.
uploadRejected(s, u) ==
    LET s1 == [s EXCEPT !.up[u].pc = "ended"]
    IN  IF stale(s1, u) THEN step(s1, "rejected", u, <<>>)
        ELSE step(s1, "rejected", u,
                  <<Cb("onProgress", "error", u), Cb("onError", "-", u)>>)

InitUpload ==
    /\ upl = NoUploads
    /\ cuts = {}
    /\ api = NoApiCall
    /\ store = EmptyStore
    /\ InitNoParser
    /\ InitNoDecoder
    /\ currentChatJob = InitJMState.currentChatJob
    /\ aborted = InitJMState.aborted
    /\ notifications = InitJMState.notifications
    /\ nextHandle = InitJMState.nextHandle
    /\ jobEnd = InitJMState.jobEnd
    /\ lastCall = InitJMState.lastCall
    /\ calls = 0
    /\ InitChatVars
    /\ model = "base"

UploadFrame ==
    /\ UNCHANGED <<cuts, api, store>>
    /\ UNCHANGED jmVars
    /\ UNCHANGED parserVars
    /\ UNCHANGED decoderVars
    /\ UNCHANGED chatVars

StartUpload ==
    \E u \in 1..MaxUploads :
        /\ upl.up[u].pc = "idle"
        /\ \A v \in 1..(u - 1) : upl.up[v].pc # "idle"
        /\ upl' = startUpload(upl, u)
        /\ UploadFrame

TransferProgress ==
    \E u \in 1..MaxUploads, pct \in {50, 100} :
        /\ upl.up[u].pc = "uploading"
        /\ upl.up[u].events < MaxProgress
        /\ upl' = transferProgress(upl, u, pct)
        /\ UploadFrame

UploadResolves ==
    \E u \in 1..MaxUploads,
       nextAction \in {"WAIT_FOR_METADATA", "READY_FOR_PROCESSING", "COMPLETE"} :
        /\ upl.up[u].pc = "uploading"
        /\ upl' = uploadResolved(upl, u, nextAction)
        /\ UploadFrame

UploadRejects ==
    \E u \in 1..MaxUploads :
        /\ upl.up[u].pc = "uploading"
        /\ upl' = uploadRejected(upl, u)
        /\ UploadFrame

NextUpload ==
    \/ StartUpload
    \/ TransferProgress
    \/ UploadResolves
    \/ UploadRejects

SpecUpload == InitUpload /\ [][NextUpload]_vars

(* ------------------------------------------------------------------ *)
(* SpecStore: loadChats on a stored value (chat-store.ts)               *)
(*                                                                      *)
(* A JSON text is modelled by its structure, with literals at the       *)
(* leaves: "absent" (no such key), "null", a number literal ("7", "50", *)
(* or "1e999", which is beyond the doubles), or a string, written by    *)
(* its content.  JSON.parse and JSON.stringify are the two operators    *)
(* below; a JavaScript value is "undefined", "null", "Infinity", a      *)
(* number or a string.  A scalar in the place of a chat or a message    *)
(* reads like an object without keys (raw?.x is undefined).             *)
(* ------------------------------------------------------------------ *)

\* JSON.parse on a leaf
parseLeaf(lit) ==
    CASE lit = "absent" -> "undefined"
      [] lit = "1e999" -> "Infinity"
      [] OTHER -> lit

\* JSON.stringify on a leaf: undefined drops the key, a non-finite number
\* is written as null
stringifyLeaf(v) ==
    CASE v = "undefined" -> "absent"
      [] v = "Infinity" -> "null"
      [] OTHER -> v

\* typeof v === "number"
IsNumber(v) == v \in {"7", "50", "Infinity", "now1", "now2", "now3"}

\* a ?? b
Nullish(a, b) == IF a \in {"undefined", "null"} THEN b ELSE a

\* Date.now() during the n-th load
DateNow(n) == <<"now1", "now2", "now3">>[n]

\* the n-th crypto.randomUUID()
RandomUUID(n) == <<"uuid1", "uuid2", "uuid3", "uuid4", "uuid5", "uuid6">>[n]

\* normalizeMessage on a parsed message; uuid is what crypto.randomUUID()
\* returns here.
normalizeMessage(raw, now, uuid) ==
    LET safeStatus == Nullish(raw.status, "done")
    IN  [id |-> Nullish(raw.id, uuid),
         createdAt |-> IF IsNumber(raw.createdAt) THEN raw.createdAt ELSE now,
         status |-> IF safeStatus \in {"typing", "streaming"} THEN "done" ELSE safeStatus,
         progress |-> "undefined"]

parseMessage(t) ==
    [id |-> parseLeaf(t.id), createdAt |-> parseLeaf(t.createdAt),
     status |-> parseLeaf(t.status), progress |-> parseLeaf(t.progress)]

stringifyMessage(m) ==
    [id |-> stringifyLeaf(m.id), createdAt |-> stringifyLeaf(m.createdAt),
     status |-> stringifyLeaf(m.status), progress |-> stringifyLeaf(m.progress)]

\* normalizeChat on a parsed chat: the chat takes the first uuid after n,
\* its k-th message the (k+1)-th.
normalizeChat(raw, now, n) ==
    [id |-> Nullish(raw.id, RandomUUID(n + 1)),
     model |-> Nullish(raw.model, "base"),
     messages |-> IF raw.isArray
                  THEN [k \in 1..Len(raw.messages) |->
                           normalizeMessage(raw.messages[k], now, RandomUUID(n + 1 + k))]
                  ELSE <<>>]

parseChat(t) ==
    [id |-> parseLeaf(t.id), model |-> parseLeaf(t.model), isArray |-> t.isArray,
     messages |-> [k \in 1..Len(t.messages) |-> parseMessage(t.messages[k])]]

stringifyChat(c) ==
    [id |-> stringifyLeaf(c.id), model |-> stringifyLeaf(c.model), isArray |-> TRUE,
     messages |-> [k \in 1..Len(c.messages) |-> stringifyMessage(c.messages[k])]]

\* loadChats in the browser: st.item is the stored text ("missing": getItem
\* returns null, "garbage": JSON.parse throws, "other": parses to something
\* that is no array).
loadChats(st) ==
    LET now == DateNow(st.loads + 1)
        s1  == [st EXCEPT !.loads = @ + 1]
        gone == [kind |-> "missing", chats |-> <<>>]
    IN  IF st.item.kind \in {"garbage", "other"}
        THEN [s1 EXCEPT !.item = gone, !.returned = Append(@, <<>>)]
        ELSE LET raw == [i \in 1..Len(st.item.chats) |-> parseChat(st.item.chats[i])]
                 normalized == [i \in 1..Len(raw) |->
                                   normalizeChat(raw[i], now,
                                                 st.uuids + (i - 1) * (MaxStoredMessages + 1))]
             IN  [s1 EXCEPT !.item = [kind |-> "array",
                                      chats |-> [i \in 1..Len(normalized) |->
                                                    stringifyChat(normalized[i])]],
                            !.uuids = @ + Len(raw) * (MaxStoredMessages + 1),
                            !.returned = Append(@, normalized)]

MessageTexts ==
    [id : {"absent", "m1"}, createdAt : {"absent", "7", "1e999"},
     status : {"absent", "null", "typing", "streaming", "done"},
     progress : {"absent", "50"}]

RECURSIVE SeqsUpTo(_, _)
SeqsUpTo(S, n) ==
    IF n = 0 THEN {<<>>}
    ELSE LET T == SeqsUpTo(S, n - 1)
         IN  T \cup {Append(t, x) : t \in T, x \in S}

ChatTexts ==
    [id : {"absent", "c1"}, model : {"absent", "net"}, isArray : {TRUE},
     messages : SeqsUpTo(MessageTexts, MaxStoredMessages)]
    \cup [id : {"absent", "c1"}, model : {"absent", "net"}, isArray : {FALSE},
          messages : {<<>>}]

StoredItems ==
    {[kind |-> k, chats |-> <<>>] : k \in {"missing", "garbage", "other"}}
    \cup {[kind |-> "array", chats |-> cs] : cs \in SeqsUpTo(ChatTexts, MaxStoredChats)}

InitStore ==
    /\ \E it \in StoredItems : store = [EmptyStore EXCEPT !.item = it, !.stored = it]
    /\ cuts = {}
    /\ api = NoApiCall
    /\ upl = NoUploads
    /\ InitNoParser
    /\ InitNoDecoder
    /\ currentChatJob = InitJMState.currentChatJob
    /\ aborted = InitJMState.aborted
    /\ notifications = InitJMState.notifications
    /\ nextHandle = InitJMState.nextHandle
    /\ jobEnd = InitJMState.jobEnd
    /\ lastCall = InitJMState.lastCall
    /\ calls = 0
    /\ InitChatVars
    /\ model = "base"

LoadChats ==
    /\ store.loads < MaxLoads
    /\ store' = loadChats(store)
    /\ UNCHANGED <<cuts, api, upl>>
    /\ UNCHANGED jmVars
    /\ UNCHANGED parserVars
    /\ UNCHANGED decoderVars
    /\ UNCHANGED chatVars

NextStore == LoadChats

SpecStore == InitStore /\ [][NextStore]_vars

(* ------------------------------------------------------------------ *)
(* Reading a frame list                                                 *)
(* ------------------------------------------------------------------ *)

RECURSIVE TextOf(_)
\* The concatenation of the text frames' values, as characters.
TextOf(fs) ==
    IF Len(fs) = 0 THEN <<>>
    ELSE (IF fs[1].type = "text" THEN Chars(fs[1].value) ELSE <<>>) \o TextOf(Tail(fs))

IsEvent(f) == f.type = "event"

\* The event frames, in order.
EventsOf(fs) == SelectSeq(fs, IsEvent)

\* The frames of the same stream pushed whole, then flushed.
OneShot(s) ==
    LET a == push(NewParser, StreamCells(s, 0, Len(s)))
        b == flush(a)
    IN  a.out \o b.out

(* ------------------------------------------------------------------ *)
(* Message lifecycle (ChatWindow.tsx)                                   *)
(*                                                                      *)
(* The component's state as one value c, so that handlers that call     *)
(* each other compose.  c.jm is the job manager, c.ps the parser of     *)
(* parserRef.                                                           *)
(* ------------------------------------------------------------------ *)

Msg(id, role, status, content) ==
    [id |-> id, role |-> role, status |-> status, content |-> content, progress |-> 0]

ChatState ==
    [messages |-> messages, inlineMetadataFields |-> inlineMetadataFields,
     netRateLimitedUntil |-> netRateLimitedUntil, textBufferRef |-> textBufferRef,
     raf |-> raf, assistantIdRef |-> assistantIdRef, ignoreStreamRef |-> ignoreStreamRef,
     finalizedRef |-> finalizedRef, jobFinishedRef |-> jobFinishedRef,
     jm |-> JMState, ps |-> ParserState]

\* onUpdateMessages(prev => prev.map(m => cond(m) ? f(m) : m))
MapMessages(ms, cond(_), f(_)) ==
    [i \in 1..Len(ms) |-> IF cond(ms[i]) THEN f(ms[i]) ELSE ms[i]]

\* finalizeAssistant
finalizeAssistant(c) ==
    IF c.finalizedRef THEN c
    ELSE LET c1 == [c EXCEPT !.finalizedRef = TRUE]
             id == c1.assistantIdRef
         IN  IF id = 0 THEN c1
             ELSE LET is(m) == m.id = id
                      fin(m) == [m EXCEPT !.status = "done",
                                          !.content = IF Len(c1.textBufferRef) > 0
                                                      THEN c1.textBufferRef ELSE @]
                      c2 == [c1 EXCEPT !.messages = MapMessages(@, is, fin),
                                       !.assistantIdRef = 0]
                  IN  IF ~c2.jobFinishedRef
                      THEN [c2 EXCEPT !.jobFinishedRef = TRUE, !.jm = finishJob(@)]
                      ELSE c2

\* The retryAfterSec of the NET_RATE_LIMITED events the backend sends.
RetryAfterSec == 2

handleUIEvent_NetFinalizes(c, evt) ==
    CASE evt = "REQUEST_METADATA" ->
            [c EXCEPT !.ignoreStreamRef = TRUE,
                      !.jm = abortJob(@),
                      !.inlineMetadataFields = TRUE,
                      !.assistantIdRef = 0]
      [] evt = "PROGRESS" ->
            LET cid == c.assistantIdRef
                is(m) == m.id = cid
                set(m) == [m EXCEPT !.progress = 50]
            IN  IF cid = 0 THEN c ELSE [c EXCEPT !.messages = MapMessages(@, is, set)]
      [] evt = "ERROR" -> finalizeAssistant(c)
      [] evt = "NET_RATE_LIMITED" ->
            finalizeAssistant(
               [c EXCEPT !.netRateLimitedUntil = RetryAfterSec,
                         !.messages = Append(@, Msg(0, "system", "done", <<<<"NetLimited", 0>>>>))])
      [] OTHER -> c

\* handleUIEvent, for the event types the streams of SpecChat carry
handleUIEvent(c, evt) ==
    CASE evt = "REQUEST_METADATA" ->
            [c EXCEPT !.ignoreStreamRef = TRUE,
                      !.jm = abortJob(@),
                      !.inlineMetadataFields = TRUE,
                      !.assistantIdRef = 0]
      [] evt = "PROGRESS" ->
            LET cid == c.assistantIdRef
                is(m) == m.id = cid
                set(m) == [m EXCEPT !.progress = 50]
            IN  IF cid = 0 THEN c ELSE [c EXCEPT !.messages = MapMessages(@, is, set)]
      [] evt = "ERROR" -> finalizeAssistant(c)
      [] evt = "NET_RATE_LIMITED" ->
            [c EXCEPT !.netRateLimitedUntil = RetryAfterSec,
                      !.messages = Append(@, Msg(0, "system", "done", <<<<"NetLimited", 0>>>>))]
      [] OTHER -> c

\* The for loop over the frames of one push; assistantId is the closure's.
RECURSIVE applyFrames(_, _, _)
applyFrames(c, fs, assistantId) ==
    IF Len(fs) = 0 THEN c
    ELSE LET frame == fs[1]
             c1 == IF frame.type = "event" THEN handleUIEvent(c, frame.evt)
                   ELSE LET c2 == [c EXCEPT !.textBufferRef = @ \o frame.value]
                        IN  IF c2.raf = NoRaf
                            THEN [c2 EXCEPT !.raf = [id |-> assistantId, value |-> frame.value]]
                            ELSE c2
         IN  applyFrames(c1, Tail(fs), assistantId)

\* The code after the while loop
afterLoop(c) == finalizeAssistant([c EXCEPT !.raf = NoRaf])

\* catch (err) { if (!finalizedRef.current) finalizeAssistant(); }
catchHandler(c) == IF ~c.finalizedRef THEN finalizeAssistant(c) ELSE c

IsLive(m) == m.status \in {"typing", "streaming"}

\* handleStop
handleStop(c) ==
    LET c1 == [c EXCEPT !.ignoreStreamRef = TRUE, !.jm = abortJob(@)]
        c2 == IF ~c1.jobFinishedRef
              THEN [c1 EXCEPT !.jobFinishedRef = TRUE, !.jm = finishJob(@)]
              ELSE c1
        c3 == [c2 EXCEPT !.raf = NoRaf]
        kill(m) == [m EXCEPT !.status = "done",
                             !.content = IF Len(@) > 0 THEN @ ELSE <<<<"Stopped.", 0>>>>]
    IN  IF c3.assistantIdRef # 0 THEN finalizeAssistant(c3)
        ELSE [c3 EXCEPT !.messages = MapMessages(@, IsLive, kill)]

\* isTyping, isNetBlocked, isUIBlocked (uploadPipeline is never set here)
isTyping(c) ==
    /\ ~c.inlineMetadataFields
    /\ c.assistantIdRef # 0
    /\ \E i \in 1..Len(c.messages) : IsLive(c.messages[i])

isNetBlocked(c) == model = "net" /\ c.netRateLimitedUntil # 0

isUIBlocked(c) == c.inlineMetadataFields \/ isNetBlocked(c)

SetChat(c) ==
    /\ messages' = c.messages
    /\ inlineMetadataFields' = c.inlineMetadataFields
    /\ netRateLimitedUntil' = c.netRateLimitedUntil
    /\ textBufferRef' = c.textBufferRef
    /\ raf' = c.raf
    /\ assistantIdRef' = c.assistantIdRef
    /\ ignoreStreamRef' = c.ignoreStreamRef
    /\ finalizedRef' = c.finalizedRef
    /\ jobFinishedRef' = c.jobFinishedRef
    /\ dirty' = (dirty \/ c.messages # messages)
    /\ SetJM(c.jm)
    /\ buffer' = c.ps.buffer
    /\ textBuffer' = c.ps.textBuffer

(* ------------------------------------------------------------------ *)
(* SpecChat: the ChatWindow with up to MaxRequests generation requests  *)
(* ------------------------------------------------------------------ *)

\* The session the window shows (the sessionId prop), always set here.
sessionId == "s1"

InitNoJM ==
    /\ currentChatJob = InitJMState.currentChatJob
    /\ aborted = InitJMState.aborted
    /\ notifications = InitJMState.notifications
    /\ nextHandle = InitJMState.nextHandle
    /\ jobEnd = InitJMState.jobEnd
    /\ lastCall = InitJMState.lastCall
    /\ calls = 0

InitChat ==
    /\ InitChatVars
    /\ InitAux
    /\ model \in {"base", "net"}
    /\ InitNoParser
    /\ InitNoDecoder
    /\ InitNoJM

Tagged(s, tag) == [i \in 1..Len(s) |-> <<s[i], tag>>]

EventLine(tok) == UI_EVENT_PREFIX \o <<"{", tok, "}", NL>>

\* What one read of the response body may deliver.
ChatChunks ==
    {<<"a">>, <<"a", " ">>, EventLine("<ERROR>"), EventLine("<REQUEST_METADATA>"),
     EventLine("<NET_RATE_LIMITED>"), EventLine("<PROGRESS>"),
     <<"a", " ">> \o EventLine("<PROGRESS>") \o <<"b", " ">>}

\* The text of a chunk that belongs to no event line (every event line of
\* ChatChunks is whole and well-formed).
ChunkText(chunk) == TextOf(OneShot(chunk))

ChatFrame == UNCHANGED <<stream, pos, frames, pout, flushes, resetAt, rawLine, decoded, calls, model, auxVars>>

\* The top of the while loop: leave it when ignoreStreamRef is set, else
\* suspend in reader.read().
loopTop(c, r, rq) ==
    IF c.ignoreStreamRef
    THEN /\ SetChat(afterLoop(c))
         /\ req' = [req EXCEPT ![r] = [rq EXCEPT !.pc = "ended"]]
    ELSE /\ SetChat(c)
         /\ req' = [req EXCEPT ![r] = [rq EXCEPT !.pc = "read"]]

\* handleSend with a non-empty text, then generateAIResponse up to its
\* await streamChat(...).  The input shows Stop instead of Send while isTyping.
Send ==
    \E r \in 1..MaxRequests :
        /\ req[r].pc = "idle"
        /\ \A q \in 1..(r - 1) : req[q].pc # "idle"
        /\ ~isUIBlocked(ChatState)
        /\ ~isTyping(ChatState)
        /\ LET c0 == [ChatState EXCEPT
                        !.messages = Append(@, Msg(0, "user", "done", <<<<"q", 0>>>>))]
           IN  IF isNetBlocked(c0)
               THEN /\ SetChat([c0 EXCEPT !.messages =
                            Append(@, Msg(0, "assistant", "done", <<<<"NetLimited", 0>>>>))])
                    /\ req' = [req EXCEPT ![r].pc = "ended"]
               ELSE LET c1 == [c0 EXCEPT
                                 !.jm = startJob(@, sessionId),
                                 !.ps = NewParser,
                                 !.textBufferRef = <<>>,
                                 !.jobFinishedRef = FALSE,
                                 !.ignoreStreamRef = FALSE,
                                 !.finalizedRef = FALSE,
                                 !.assistantIdRef = 0]
                    IN  /\ SetChat(c1)
                        /\ req' = [req EXCEPT ![r] =
                                     [pc |-> "fetch",
                                      controller |-> c1.jm.currentChatJob.controller,
                                      assistantId |-> 0, chunks |-> 0, rx |-> <<>>]]
        /\ actor' = 0
        /\ ChatFrame

\* streamChat resolves: the assistant message is created and the loop entered.
StreamOpen ==
    \E r \in 1..MaxRequests :
        /\ req[r].pc = "fetch"
        /\ req[r].controller \notin aborted
        /\ LET c1 == [ChatState EXCEPT
                        !.assistantIdRef = r,
                        !.messages = Append(@, Msg(r, "assistant", "typing", <<>>))]
           IN  loopTop(c1, r, [req[r] EXCEPT !.assistantId = r])
        /\ actor' = r
        /\ ChatFrame

\* streamChat rejects (abort, network failure, HTTP error): the catch block.
StreamFail ==
    \E r \in 1..MaxRequests :
        /\ req[r].pc = "fetch"
        /\ SetChat(catchHandler(ChatState))
        /\ req' = [req EXCEPT ![r].pc = "ended"]
        /\ actor' = r
        /\ ChatFrame

ReadChunkOf_NoAbortCheck(r, chunk) ==
    /\ req[r].pc = "read"
    /\ req[r].chunks < MaxChunks
    /\ LET res == push(ChatState.ps, Tagged(chunk, r))
           c1  == [ChatState EXCEPT !.ps = [buffer |-> res.buffer,
                                            textBuffer |-> res.textBuffer]]
           c2  == applyFrames(c1, res.out, req[r].assistantId)
       IN  loopTop(c2, r, [req[r] EXCEPT !.chunks = @ + 1, !.rx = @ \o ChunkText(chunk)])
    /\ actor' = r
    /\ ChatFrame

\* reader.read() resolves with a chunk: push, apply the frames, loop.
ReadChunkOf(r, chunk) ==
    /\ req[r].pc = "read"
    /\ req[r].chunks < MaxChunks
    /\ req[r].controller \notin aborted
    /\ LET res == push(ChatState.ps, Tagged(chunk, r))
           c1  == [ChatState EXCEPT !.ps = [buffer |-> res.buffer,
                                            textBuffer |-> res.textBuffer]]
           c2  == applyFrames(c1, res.out, req[r].assistantId)
       IN  loopTop(c2, r, [req[r] EXCEPT !.chunks = @ + 1, !.rx = @ \o ChunkText(chunk)])
    /\ actor' = r
    /\ ChatFrame

ReadChunk == \E r \in 1..MaxRequests, chunk \in ChatChunks : ReadChunkOf(r, chunk)

\* reader.read() resolves with done, or with a value after the controller
\* was aborted: break, then the code after the loop.
ReadDone ==
    \E r \in 1..MaxRequests :
        /\ req[r].pc = "read"
        /\ SetChat(afterLoop(ChatState))
        /\ req' = [req EXCEPT ![r].pc = "ended"]
        /\ actor' = r
        /\ ChatFrame

\* reader.read() rejects (transport failure, or the abort): the catch block.
ReadError ==
    \E r \in 1..MaxRequests :
        /\ req[r].pc = "read"
        /\ SetChat(catchHandler(ChatState))
        /\ req' = [req EXCEPT ![r].pc = "ended"]
        /\ actor' = r
        /\ ChatFrame

\* The animation-frame callback registered by the frame loop runs.
RafFire ==
    /\ raf # NoRaf
    /\ LET is(m) == m.id = raf.id
           add(m) == [m EXCEPT !.content = @ \o raf.value, !.status = "streaming"]
       IN  SetChat([ChatState EXCEPT !.messages = MapMessages(@, is, add),
                                     !.raf = NoRaf])
    /\ actor' = raf.id
    /\ UNCHANGED req
    /\ ChatFrame

\* The Stop button (shown while isTyping): handleStop.
Stop ==
    /\ isTyping(ChatState)
    /\ SetChat(handleStop(ChatState))
    /\ actor' = 0
    /\ UNCHANGED req
    /\ ChatFrame

\* useEffect on [messages]: a terminal last message releases assistantIdRef.
RenderEffect ==
    /\ dirty
    /\ dirty' = FALSE
    /\ assistantIdRef' =
          IF /\ Len(messages) > 0
             /\ messages[Len(messages)].status \in {"done", "error"}
          THEN 0 ELSE assistantIdRef
    /\ actor' = 0
    /\ UNCHANGED <<messages, inlineMetadataFields, netRateLimitedUntil, textBufferRef, raf,
                   ignoreStreamRef, finalizedRef, jobFinishedRef, req, buffer, textBuffer,
                   currentChatJob, aborted, notifications, nextHandle, jobEnd, lastCall>>
    /\ ChatFrame

\* A second passes while a deadline is set.  When the deadline is reached
\* the timeout of the rate-limit effect fires: setNetRateLimitedUntil(null).
NetLimitExpire ==
    /\ netRateLimitedUntil # 0
    /\ netRateLimitedUntil' = netRateLimitedUntil - 1
    /\ actor' = 0
    /\ UNCHANGED <<messages, inlineMetadataFields, textBufferRef, raf, assistantIdRef,
                   ignoreStreamRef, finalizedRef, jobFinishedRef, req, dirty, buffer,
                   textBuffer, currentChatJob, aborted, notifications, nextHandle, jobEnd,
                   lastCall>>
    /\ ChatFrame

NextChat ==
    \/ Send
    \/ StreamOpen
    \/ StreamFail
    \/ ReadChunk
    \/ ReadDone
    \/ ReadError
    \/ RafFire
    \/ Stop
    \/ RenderEffect
    \/ NetLimitExpire

SpecChat == InitChat /\ [][NextChat]_vars

\* A continuation of request r's generateAIResponse call: its pending
\* streamChat or reader.read() promise settles.
Continue(r) ==
    /\ req[r].pc \in {"fetch", "read"}
    /\ StreamOpen \/ StreamFail \/ ReadChunk \/ ReadDone \/ ReadError
    /\ actor' = r

\* The window of a user who sends one question only: the later request
\* slots are used up from the start.
InitChatSolo ==
    /\ messages = <<>>
    /\ inlineMetadataFields = FALSE
    /\ netRateLimitedUntil = 0
    /\ textBufferRef = <<>>
    /\ raf = NoRaf
    /\ assistantIdRef = 0
    /\ ignoreStreamRef = FALSE
    /\ finalizedRef = FALSE
    /\ jobFinishedRef = FALSE
    /\ req = [r \in 1..MaxRequests |->
                 IF r = 1 THEN IdleReq ELSE [IdleReq EXCEPT !.pc = "ended"]]
    /\ dirty = FALSE
    /\ actor = 0
    /\ model \in {"base", "net"}
    /\ InitNoParser
    /\ InitNoDecoder
    /\ InitAux
    /\ InitNoJM

\* One question, with the scheduling the runtime guarantees: a pending
\* promise of the request settles, a requested animation frame runs unless
\* it is cancelled, effects run after a render, the rate-limit timer fires.
\* The user's Send and Stop are under no obligation.
SpecChatFair ==
    /\ InitChatSolo
    /\ [][NextChat]_vars
    /\ \A r \in 1..MaxRequests : WF_vars(Continue(r))
    /\ WF_vars(RafFire)
    /\ WF_vars(RenderEffect)
    /\ WF_vars(NetLimitExpire)

(* ================================================================== *)
(* Claims about the job manager (checked under SpecJM)                  *)
(* ================================================================== *)

\* Positions in the last call's effect list of the effects of kind e on handle h.
EffIdx(e, h) ==
    {i \in 1..Len(lastCall.effects) : lastCall.effects[i].e = e /\ lastCall.effects[i].h = h}

\* Handles whose job ended the given way.
EndedBy(how) == {jobEnd[i].h : i \in {j \in 1..Len(jobEnd) : jobEnd[j].how = how}}

NotificationsFor(h) == {i \in 1..Len(notifications) : notifications[i].job = h}

\* C1: single flight.  When startJob is called while a job is active, the
\* previous job's handle is triggered and exactly one abort notification for
\* the previous job is sent, both before the new record is installed and
\* before the new handle is returned; and hasActiveJob() is false right after
\* every finishJob or abortJob.
C1_SingleFlight ==
    /\ (lastCall.name = "startJob" /\ lastCall.prev # NoJob) =>
          LET p == lastCall.prev.controller
              n == currentChatJob.controller
          IN  /\ p \in aborted
              /\ n # p
              /\ Cardinality(EffIdx("abort", p)) = 1
              /\ Cardinality(EffIdx("notify", p)) = 1
              /\ Cardinality(NotificationsFor(p)) = 1
              /\ Cardinality(EffIdx("install", n)) = 1
              /\ Cardinality(EffIdx("return", n)) = 1
              /\ \A i \in EffIdx("abort", p) \cup EffIdx("notify", p) :
                    \A j \in EffIdx("install", n) \cup EffIdx("return", n) : i < j
    /\ lastCall.name \in {"finishJob", "abortJob"} => ~hasActiveJob(JMState)

\* C1 witness: a startJob that superseded an active job has just returned.
C1_Witness ==
    /\ lastCall.name = "startJob"
    /\ lastCall.prev # NoJob
    /\ hasActiveJob(JMState)

\* C8: at most one job is active.  Every handle returned by an earlier
\* startJob belongs to a job that was aborted (its handle triggered) or
\* finished; hasActiveJob() is true exactly when the last call other than
\* hasActiveJob was startJob; hasActiveJob itself changes nothing.
C8_AtMostOneActive ==
    /\ \A h \in 1..(nextHandle - 1) :
          h # currentChatJob.controller =>
             \/ h \in aborted /\ h \in EndedBy("abort")
             \/ h \in EndedBy("finish")
    /\ hasActiveJob(JMState) <=> (lastCall.mut = "startJob")
    /\ hasActiveJob(JMState) => currentChatJob.controller = nextHandle - 1
    /\ lastCall.name = "hasActiveJob" =>
          /\ lastCall.prev = currentChatJob
          /\ lastCall.effects = <<>>
          /\ lastCall.result = hasActiveJob(JMState)

\* C8 witness: three jobs were started, one ended by abort, one by finish, and
\* hasActiveJob has just answered true for the third.
C8_Witness ==
    /\ nextHandle = 4
    /\ EndedBy("abort") # {}
    /\ EndedBy("finish") # {}
    /\ lastCall.name = "hasActiveJob"
    /\ lastCall.result

\* C9: abortJob on an active job (called directly or by startJob) triggers
\* that job's handle, sends one notification carrying the session id of the
\* job being aborted (never the session id of the superseding job), and then
\* clears the record.
C9_AbortEffects ==
    (lastCall.name \in {"abortJob", "startJob"} /\ lastCall.prev # NoJob) =>
        LET p == lastCall.prev
            e == lastCall.effects
            last == notifications[Len(notifications)]
        IN  /\ Len(e) >= 3
            /\ e[1] = Eff("abort", p.controller, p.sessionId)
            /\ e[2] = Eff("notify", p.controller, p.sessionId)
            /\ e[3] = Eff("clear", p.controller, p.sessionId)
            /\ p.controller \in aborted
            /\ Len(notifications) >= 1
            /\ last.sessionId = p.sessionId
            /\ last.job = p.controller
            /\ Cardinality(NotificationsFor(p.controller)) = 1
            /\ currentChatJob # p
            /\ lastCall.name = "abortJob" => currentChatJob = NoJob

\* C9 witness: startJob("s2") has just superseded a job of session "s1".
C9_Witness ==
    /\ lastCall.name = "startJob"
    /\ lastCall.prev # NoJob
    /\ lastCall.prev.sessionId = "s1"
    /\ currentChatJob.sessionId = "s2"
    /\ notifications[Len(notifications)].sessionId = "s1"

\* C10: finishJob clears the record without sending a notification and
\* without triggering the handle; the number of notifications sent equals the
\* number of jobs ended by abort, and a job ended by finishJob never gets one.
C10_FinishSilent ==
    /\ Len(notifications) = Cardinality(EndedBy("abort"))
    /\ \A h \in EndedBy("finish") :
          /\ NotificationsFor(h) = {}
          /\ h \notin aborted
    /\ lastCall.name = "finishJob" =>
          /\ currentChatJob = NoJob
          /\ \A i \in 1..Len(lastCall.effects) : lastCall.effects[i].e = "clear"
          /\ lastCall.prev # NoJob => lastCall.effects =
                << Eff("clear", lastCall.prev.controller, lastCall.prev.sessionId) >>

\* C10 witness: finishJob has just ended an active job, after another job was
\* ended by abort.
C10_Witness ==
    /\ lastCall.name = "finishJob"
    /\ lastCall.prev # NoJob
    /\ EndedBy("abort") # {}
    /\ lastCall.prev.controller \in EndedBy("finish")

\* Number of notifications a recorded call sent.
NotifyCount(call) ==
    Cardinality({i \in 1..Len(call.effects) : call.effects[i].e = "notify"})

\* A step that is a call of abortJob.
IsAbortJobStep == calls' = calls + 1 /\ lastCall'.name = "abortJob"

\* C11: abortJob with no active job sends no notification and leaves the job
\* manager's state unchanged; two calls of abortJob in a row send exactly one
\* notification when a job was active before the first and none otherwise,
\* and the second call changes nothing.
C11_NoOpAbort ==
    [][IsAbortJobStep =>
          /\ currentChatJob' = NoJob
          /\ currentChatJob = NoJob =>
                /\ UNCHANGED <<currentChatJob, aborted, notifications, nextHandle, jobEnd>>
                /\ lastCall'.effects = <<>>
          /\ lastCall.name = "abortJob" =>
                /\ NotifyCount(lastCall) + NotifyCount(lastCall') =
                      (IF lastCall.prev # NoJob THEN 1 ELSE 0)
                /\ UNCHANGED <<currentChatJob, aborted, notifications, nextHandle, jobEnd>>
      ]_vars

\* C11 witness: startJob, abortJob, abortJob: the second abortJob found no
\* job and one notification exists.
C11_Witness ==
    /\ calls = 3
    /\ lastCall.name = "abortJob"
    /\ lastCall.prev = NoJob
    /\ Len(jobEnd) = 1
    /\ jobEnd[1].how = "abort"
    /\ Len(notifications) = 1

\* A step in which the POST of a notification completes or fails.
IsSettleStep == calls' = calls /\ notifications' # notifications

\* C12: the abort notification is fire-and-forget.  The call that issues it
\* returns with the aborted job's record cleared while the notification is
\* still pending (and, for startJob, with the new job already installed);
\* the completion or failure of a notification changes nothing of the job
\* manager but that notification's own outcome; and startJob can be called
\* in every state, whatever the notifications' outcomes.
C12_FireAndForget ==
    /\ [](calls < MaxCalls => ENABLED StartJobCall)
    /\ [][
           /\ Len(notifications') > Len(notifications) =>
                /\ Len(notifications') = Len(notifications) + 1
                /\ notifications'[Len(notifications')].state = "pending"
                /\ lastCall'.name \in {"abortJob", "startJob"}
                /\ currentChatJob' # lastCall'.prev
                /\ lastCall'.name = "abortJob" => currentChatJob' = NoJob
                /\ lastCall'.name = "startJob" =>
                      /\ currentChatJob'.active
                      /\ currentChatJob'.controller = nextHandle' - 1
           /\ IsSettleStep =>
                /\ UNCHANGED <<currentChatJob, aborted, nextHandle, jobEnd, lastCall>>
                /\ Len(notifications') = Len(notifications)
                /\ \A i \in 1..Len(notifications) :
                      /\ notifications'[i].sessionId = notifications[i].sessionId
                      /\ notifications'[i].job = notifications[i].job
                      /\ notifications[i].state # "pending" =>
                            notifications'[i] = notifications[i]
      ]_vars

\* C12 witness: startJob has just superseded a job and returned while that
\* job's notification is pending, after an earlier notification failed.
C12_Witness ==
    /\ lastCall.name = "startJob"
    /\ lastCall.prev # NoJob
    /\ currentChatJob.active
    /\ notifications[Len(notifications)].state = "pending"
    /\ \E i \in 1..Len(notifications) : notifications[i].state = "failed"

(* ================================================================== *)
(* Claims about the stream parser (checked under SpecParser)            *)
(* ================================================================== *)

\* A text frame accounts for the offsets of its characters; an event frame
\* for its line together with the newline that ended it.
\* How many times the frames account for stream offset p.
Coverage(p) ==
    LET hit(i) == Cardinality({k \in 1..Len(frames[i].value) : frames[i].value[k][2] = p})
                  + (IF frames[i].type = "event" /\ frames[i].value[Len(frames[i].value)][2] + 1 = p
                     THEN 1 ELSE 0)
        RECURSIVE Sum(_)
        Sum(i) == IF i = 0 THEN 0 ELSE hit(i) + Sum(i - 1)
    IN  Sum(Len(frames))

\* C2: chunk-boundary invariance.  Pushing the chunks one at a time and then
\* flushing yields the same concatenation of text-frame values as pushing the
\* whole stream in one push and flushing.
C2_ChunkInvariance ==
    flushes >= 1 => TextOf(frames) = TextOf(OneShot(stream))

\* C3: no loss.  After the pushes and one flush every character of the stream
\* is accounted for by exactly one frame: it is in one text frame, or belongs
\* to one line decoded as an event.
C3_NoLoss ==
    flushes >= 1 => \A p \in 1..Len(stream) : Coverage(p) = 1

\* C4: frame order follows stream order.  Every text character that precedes
\* an event line in the stream is emitted in a frame before that event's frame.
C4_TextBeforeEvent ==
    flushes >= 1 =>
        \A j \in 1..Len(frames) :
            frames[j].type = "event" =>
                \A i \in 1..Len(frames) :
                    (/\ frames[i].type = "text"
                     /\ \E k \in 1..Len(frames[i].value) :
                           frames[i].value[k][2] < frames[j].value[1][2])
                    => i < j

\* The stream holds a well-formed, newline-terminated event line.
HasEventLine(s) == IndexOf(s, UI_EVENT_PREFIX \o ValidBody \o <<NL>>) # -1

\* C5: event detection is independent of chunk boundaries.  For a stream that
\* holds well-formed, newline-terminated event lines, the event frames
\* emitted are the same for every chunking of the stream.
C5_EventsChunkIndependent ==
    (flushes >= 1 /\ HasEventLine(stream)) =>
        EventsOf(frames) = EventsOf(OneShot(stream))

(* ================================================================== *)
(* Claims about the message lifecycle (checked under SpecChat)          *)
(* ================================================================== *)

\* Request r2 was started after r1 and is in flight; this step is a step of
\* r1's stream (a continuation of its generateAIResponse, or an
\* animation-frame callback its frame loop registered).
SupersededStep(r1, r2) ==
    /\ r1 < r2
    /\ req[r2].pc \in {"fetch", "read"}
    /\ actor' = r1
    /\ \/ req'[r1] # req[r1]
       \/ raf # NoRaf /\ raf.id = r1 /\ raf' = NoRaf

\* The message with the given id is the same before and after the step.
MessageKept(id) ==
    \A i \in 1..Len(messages) :
        messages[i].id = id => Len(messages') >= i /\ messages'[i] = messages[i]

\* The three parts of C6, one by one.
C6_MessageKept ==
    [][\A r1, r2 \in 1..MaxRequests : SupersededStep(r1, r2) => MessageKept(r2)]_vars

C6_FinalizedKept ==
    [][\A r1, r2 \in 1..MaxRequests : SupersededStep(r1, r2) => finalizedRef' = finalizedRef]_vars

C6_JobKept ==
    [][\A r1, r2 \in 1..MaxRequests :
          (SupersededStep(r1, r2) /\ currentChatJob.controller = req[r2].controller)
             => currentChatJob' = currentChatJob]_vars

\* C6: supersession guard.  When a second request is started while the first
\* one's stream is in flight, no step of the first stream changes the second
\* request's message, marks the second request finalized, or clears the
\* second job's record.
C6_SupersessionGuard ==
    [][\A r1, r2 \in 1..MaxRequests :
          SupersededStep(r1, r2) =>
             /\ MessageKept(r2)
             /\ finalizedRef' = finalizedRef
             /\ currentChatJob.controller = req[r2].controller
                   => currentChatJob' = currentChatJob]_vars

\* C7: terminal immutability.  Once an assistant message is done or error, no
\* later step changes its status or its content.
C7_TerminalImmutable ==
    [][\A i \in 1..Len(messages) :
          (messages[i].role = "assistant" /\ messages[i].status \in {"done", "error"})
             => /\ Len(messages') >= i
                /\ messages'[i].status = messages[i].status
                /\ messages'[i].content = messages[i].content]_vars

\* The characters of the content of the assistant message of request r in
\* the given message list (empty when there is no such message).
ContentIn(ms, r) ==
    LET idx == {i \in 1..Len(ms) : ms[i].id = r}
    IN  IF idx = {} THEN <<>> ELSE Chars(ms[CHOOSE i \in idx : TRUE].content)

StatusIn(ms, r) ==
    LET idx == {i \in 1..Len(ms) : ms[i].id = r}
    IN  IF idx = {} THEN "none" ELSE ms[CHOOSE i \in idx : TRUE].status

\* C13: when the stream of a request ends naturally (the reader reports done
\* and the request's handle was not triggered), the final content of its
\* message is the concatenation, in order, of all the text of the stream
\* that belongs to no event line, the text the parser was still holding
\* included.
C13_FinalContent ==
    [][\A r \in 1..MaxRequests :
          (ReadDone /\ actor' = r /\ req[r].controller \notin aborted)
             => ContentIn(messages', r) = req[r].rx]_vars

\* C14: every assistant message created for a generation request ends in
\* status done or error: from some point on it is never typing or streaming
\* again.
C14_EventuallyTerminal ==
    \A r \in 1..MaxRequests :
        <>[](StatusIn(messages, r) \notin {"typing", "streaming"})

IsPrefix(s, u) == Len(s) <= Len(u) /\ SubSeq(u, 1, Len(s)) = s

\* A step in which the transport raises into request r after its message
\* was created, or in which request r handles a backend ERROR event.
ErrorStep(r) ==
    /\ req[r].pc = "read"
    /\ \/ ReadError /\ actor' = r
       \/ ReadChunkOf(r, EventLine("<ERROR>"))

\* C15: when a backend ERROR event arrives, or the transport raises during
\* the read, the message of that job ends in status error and keeps the
\* partial text gathered up to that point: what it showed is kept, and
\* nothing is in it that the stream did not deliver.
C15_ErrorStatus ==
    [][\A r \in 1..MaxRequests :
          (ErrorStep(r) /\ StatusIn(messages, r) \in {"typing", "streaming"})
             => /\ StatusIn(messages', r) = "error"
                /\ IsPrefix(ContentIn(messages, r), ContentIn(messages', r))
                /\ IsPrefix(ContentIn(messages', r), req[r].rx)]_vars

\* C16: stop is soft cancellation.  After the Stop action no job is active,
\* exactly one abort notification was sent if a job was active (none
\* otherwise), the message being generated is done and its content is text
\* the stream delivered, in order and no shorter than what it showed; and once a
\* request's handle is triggered and its message is done, no later step (a
\* chunk arriving after the stop) changes that message.
C16_SoftStop ==
    [][/\ Stop =>
             /\ currentChatJob' = NoJob
             /\ Len(notifications') =
                   Len(notifications) + (IF currentChatJob # NoJob THEN 1 ELSE 0)
             /\ \A r \in 1..MaxRequests :
                   (assistantIdRef = r /\ StatusIn(messages, r) \in {"typing", "streaming"})
                      => /\ StatusIn(messages', r) = "done"
                         /\ Len(ContentIn(messages', r)) >= Len(ContentIn(messages, r))
                         /\ IsPrefix(ContentIn(messages', r), req[r].rx)
       /\ \A r \in 1..MaxRequests :
             (req[r].controller \in aborted /\ StatusIn(messages, r) = "done")
                => MessageKept(r)
      ]_vars

\* The step in which request r handles a REQUEST_METADATA event.
MetadataStep(r) == ReadChunkOf(r, EventLine("<REQUEST_METADATA>"))

\* Request r has handed over to metadata collection: its stream delivered the
\* event and its generateAIResponse call has returned.  (The prompt, once
\* shown, stays: nothing in these behaviours submits it.)
HandedOver(r) ==
    /\ inlineMetadataFields
    /\ req[r].pc = "ended"
    /\ req[r].assistantId = r
    /\ \A q \in 1..MaxRequests : q > r => req[q].pc = "idle"

\* C17: handling a REQUEST_METADATA event aborts the current job through the
\* job manager (no job is active afterwards, one abort notification is
\* sent); the message of that job is then finalized: once the request has
\* returned and no animation frame is pending, its status is done or error.
C17_MetadataHandover ==
    /\ [][\A r \in 1..MaxRequests :
             (MetadataStep(r) /\ currentChatJob.controller = req[r].controller)
                => /\ currentChatJob' = NoJob
                   /\ Len(notifications') = Len(notifications) + 1]_vars
    /\ [](\A r \in 1..MaxRequests :
             (HandedOver(r) /\ raf = NoRaf)
                => StatusIn(messages, r) \in {"done", "error"})

\* The step in which request r handles a NET_RATE_LIMITED event.
NetLimitStep(r) == ReadChunkOf(r, EventLine("<NET_RATE_LIMITED>"))

\* C18: handling a NET_RATE_LIMITED event leaves the in-flight message (its
\* status and content) and the active job unchanged and records a deadline
\* retryAfterSec from now; and while a deadline is set that has not passed
\* and the net model is selected, no step starts a job.
C18_RateLimit ==
    [][/\ \A r \in 1..MaxRequests :
             NetLimitStep(r) =>
                /\ StatusIn(messages', r) = StatusIn(messages, r)
                /\ ContentIn(messages', r) = ContentIn(messages, r)
                /\ currentChatJob' = currentChatJob
                /\ notifications' = notifications
                /\ aborted' = aborted
                /\ netRateLimitedUntil' = RetryAfterSec
       /\ (model = "net" /\ netRateLimitedUntil > 0) =>
             /\ nextHandle' = nextHandle
             /\ currentChatJob' \in {currentChatJob, NoJob}
      ]_vars

\* C18 witness: the net model is selected, a NET_RATE_LIMITED event was
\* handled a second ago, the deadline has not passed, and the request that
\* received the event is still streaming into its message with its job active.
C18_Witness ==
    /\ model = "net"
    /\ netRateLimitedUntil = RetryAfterSec - 1
    /\ \E r \in 1..MaxRequests :
          /\ req[r].pc = "read"
          /\ StatusIn(messages, r) = "streaming"
          /\ currentChatJob.controller = req[r].controller
          /\ currentChatJob.active

\* C19: batching onto animation frames preserves order and loses nothing.
\* In every reachable state the content shown for a streaming message is a
\* prefix of the text its stream has delivered so far (of which the text
\* frames the parser has emitted for the job are a prefix).
C19_ContentIsPrefix ==
    \A r \in 1..MaxRequests :
        StatusIn(messages, r) = "streaming"
           => IsPrefix(ContentIn(messages, r), req[r].rx)

(* ================================================================== *)
(* More claims about the stream parser (checked under SpecParser)       *)
(* ================================================================== *)

\* What flush is to return for the raw buffer b: the event when b holds a
\* complete, decodable event line that lacks only its final newline, and b as
\* literal text otherwise.
FlushedRaw(b) ==
    IF Len(b) = 0 THEN <<>>
    ELSE IF StartsWith(Chars(b), UI_EVENT_PREFIX) /\ parseLLMUIEvent(Chars(b)) # "null"
         THEN <<EventFrame(parseLLMUIEvent(Chars(b)), b)>>
         ELSE <<TextFrame(b)>>

\* C20: flush emits the pending text first and then the remaining raw
\* buffer; a raw buffer holding a complete, decodable event line without its
\* final newline is emitted as an event frame, any other as literal text;
\* after flush both buffers are empty.
C20_FlushDecodes ==
    [][flushes' = flushes + 1 =>
          /\ pout' = (IF Len(textBuffer) > 0 THEN <<TextFrame(textBuffer)>> ELSE <<>>)
                        \o FlushedRaw(buffer)
          /\ buffer' = <<>>
          /\ textBuffer' = <<>>]_vars

\* C21: after flush both parser buffers are empty, whatever was pushed
\* before; a second flush right after the first returns no frame; and flush
\* on a parser that never received data returns no frame.
C21_FlushIdempotent ==
    /\ flushes >= 1 => (buffer = <<>> /\ textBuffer = <<>>)
    /\ flushes = 2 => pout = <<>>
    /\ (flushes >= 1 /\ pos = 0) => (pout = <<>> /\ frames = <<>>)

\* C21 witness: a stream ending in "a" was pushed (push holds that tail back),
\* the first flush returned it in a text frame, and the second flush has
\* returned.
C21_Witness ==
    /\ flushes = 2
    /\ pos > 0
    /\ stream[Len(stream)] = "a"
    /\ pout = <<>>
    /\ Len(frames) > 0
    /\ frames[Len(frames)].type = "text"
    /\ \E k \in 1..Len(frames[Len(frames)].value) :
          frames[Len(frames)].value[k][2] = Len(stream)

\* The stream offsets of the cells of cs.
Offsets(cs) == {cs[k][2] : k \in 1..Len(cs)}

\* What C22 asks of the push that brings the newline of the event line
\* `line`, decoded as evt: fs are the frames the push returned, all the
\* frames returned so far.
WholeEventFrame(line, evt, fs, all) ==
    evt # "null" =>
       /\ Len(fs) >= 1
       /\ fs[1] = EventFrame(evt, line)
       /\ Cardinality({i \in 1..Len(all) :
               all[i].type = "event" /\ all[i].value = line}) = 1
       /\ \A i \in 1..Len(all) :
             all[i].type = "text" =>
                Offsets(all[i].value) \cap (Offsets(line) \cup {line[Len(line)][2] + 1}) = {}

\* C22: once the parser holds the complete marker at the head of its raw
\* buffer, the event line is never emitted in pieces.  A push that does not
\* bring the newline returns no frame and only extends the raw buffer; the
\* push that brings the newline returns, first, one event frame for the whole
\* line, and no text frame ever holds a character of the line.
C22_EventNotInPieces ==
    [][(pos' > pos /\ StartsWith(Chars(buffer), UI_EVENT_PREFIX)) =>
          \A raw \in {buffer \o StreamCells(stream, pos, pos')} :
             \A nl \in {IndexOf(Chars(raw), <<NL>>)} :
                IF nl = -1
                THEN /\ pout' = <<>>
                     /\ buffer' = raw
                     /\ textBuffer' = textBuffer
                ELSE \A line \in {SliceTo(raw, nl)} :
                        \A evt \in {parseLLMUIEvent(Chars(line))} :
                           WholeEventFrame(line, evt, pout', frames')
      ]_vars

\* C22 witness: the marker and the opening brace of a well-formed event line
\* have been pushed, the rest of the line is still to come, and push has
\* returned nothing for it.
C22_Witness ==
    /\ Chars(buffer) = UI_EVENT_PREFIX \o <<"{">>
    /\ pos >= 13
    /\ pos + 3 <= Len(stream)
    /\ SubSeq(stream, pos - 12, pos + 3) = UI_EVENT_PREFIX \o ValidBody \o <<NL>>
    /\ pout = <<>>
    /\ flushes = 0

\* The first marker line of the raw buffer raw, or <<>> when raw holds no
\* marker or no newline after it.
FirstMarkerLine(raw) ==
    LET eventIdx == IndexOf(Chars(raw), UI_EVENT_PREFIX)
    IN  IF eventIdx = -1 THEN <<>>
        ELSE LET rest == SliceFrom(raw, eventIdx)
                 nl   == IndexOf(Chars(rest), <<NL>>)
             IN  IF nl = -1 THEN <<>> ELSE SliceTo(rest, nl)

\* What C23 asks of the push that completes the undecodable marker line
\* `line`: fs are the frames the push returned, all the frames so far.
WholeTextFrame(line, fs, all) ==
    /\ Cardinality({i \in 1..Len(fs) : fs[i] = TextFrame(line)}) = 1
    /\ \A i \in 1..Len(all) :
          Offsets(all[i].value) \cap Offsets(line) # {} => all[i] = TextFrame(line)

\* C23: a newline-terminated line that starts with the marker and does not
\* decode (remainder not an object, unknown type, nothing after the marker)
\* is returned by the push that completes it as exactly one text frame whose
\* value is the line; no event frame and no other text frame ever holds a
\* character of it.
C23_FallbackText ==
    [][pos' > pos =>
          \A line \in {FirstMarkerLine(buffer \o StreamCells(stream, pos, pos'))} :
             (line # <<>> /\ parseLLMUIEvent(Chars(line)) = "null") =>
                WholeTextFrame(line, pout', frames')
      ]_vars

\* C23 witness: push has just returned, as its only frame, the text frame of
\* a marker line with an unknown type, and more of the stream is to come.
C23_Witness ==
    /\ flushes = 0
    /\ Len(pout) = 1
    /\ pout[1].type = "text"
    /\ Chars(pout[1].value) = UI_EVENT_PREFIX \o UnknownBody
    /\ Len(frames) = 1
    /\ pos = Len(UI_EVENT_PREFIX) + Len(UnknownBody) + 1
    /\ pos < Len(stream)

(* ------------------------------------------------------------------ *)
(* Claims about the event decoder                                       *)
(* ------------------------------------------------------------------ *)

\* The types the specification lists as accepted.
AcceptedTypes ==
    {"SYSTEM_MESSAGE", "REQUEST_METADATA", "METADATA_CONFIRMED", "PROGRESS",
     "MODEL_STAGE", "ERROR", "NET_RATE_LIMITED", "SOURCES", "ANSWER_CONFIDENCE"}

\* The type written in the JSON object of the line, read off the line itself:
\* the line holds exactly one object, with that type.
WrittenType(line, type) ==
    /\ Cardinality({k \in 1..Len(line) : line[k] \in {"{", "}"}}) = 2
    /\ \E k \in 2..(Len(line) - 1) :
          /\ line[k - 1] = "{"
          /\ line[k + 1] = "}"
          /\ line[k] \in Tokens
          /\ TokenType(line[k]) = type

\* C24: the decoder never raises and accepts a closed set: the result is an
\* event only when the line's JSON object has one of the nine listed types
\* (and the event has that type); every other line gives the negative
\* result.
C24_ClosedSet ==
    decoded # "-" =>
       /\ decoded \in AcceptedTypes \cup {"null"}
       /\ decoded # "null" => WrittenType(rawLine, decoded)
       /\ (\A t \in AcceptedTypes : ~WrittenType(rawLine, t)) => decoded = "null"

\* C24 witness: a well-formed line whose object has a type outside the list
\* was decoded, with the negative result.
C24_Witness ==
    /\ rawLine = UI_EVENT_PREFIX \o <<"{", "<UNKNOWN>", "}">>
    /\ decoded = "null"

\* The line's object has a listed type but lacks a field that type requires,
\* or has it with another type than declared.
LacksRequiredField(line) ==
    \E k \in 1..Len(line) :
       /\ line[k] \in Tokens \ DeclaredTokens
       /\ TokenType(line[k]) \in AcceptedTypes

\* C25: a line whose object has a listed type but lacks a required field or
\* has it mistyped decodes to "not an event".
C25_RequiredFields ==
    (decoded # "-" /\ LacksRequiredField(rawLine)) => decoded = "null"

\* The line starts, at offset 0, with the exact marker, and the first
\* character after the marker that is no whitespace is "{".
MarkerThenBrace(line) ==
    /\ Len(line) > 12
    /\ SubSeq(line, 1, 12) = <<"_", "_", "U", "I", "_", "E", "V", "E", "N", "T", "_", "_">>
    /\ \E k \in 13..Len(line) :
          /\ line[k] = "{"
          /\ \A j \in 13..(k - 1) : line[j] \in {" ", NL}

\* C26: a line is decoded only if it starts at offset 0 with the exact marker
\* and the remainder, leading whitespace stripped, begins with "{"; text
\* before the marker, a marker variant, or another remainder give the
\* negative result.
C26_MarkerAtStart ==
    (decoded # "-" /\ ~MarkerThenBrace(rawLine)) => decoded = "null"

\* C26 witness: a line with a space before the marker and an otherwise
\* decodable object was given the negative result.
C26_Witness ==
    /\ rawLine = <<" ">> \o UI_EVENT_PREFIX \o <<"{", "<PROGRESS>", "}">>
    /\ decoded = "null"

(* ------------------------------------------------------------------ *)
(* Claims about reset and the empty push                                *)
(* ------------------------------------------------------------------ *)

\* The characters pushed after position p only.
After(cs, p) == \A o \in Offsets(cs) : o > p

\* C27: reset clears both buffers whatever they hold.  Right after the last
\* reset (nothing pushed since) the parser is in the state of a new parser,
\* both buffers empty and no frame returned, so the later calls return what
\* a new parser returns; and no character pushed before the reset is in a
\* buffer or in a frame returned after it.
C27_ResetIsFresh ==
    resetAt # <<>> =>
       \A last \in {resetAt[Len(resetAt)]} :
          /\ pos = last.pos =>
                /\ [buffer |-> buffer, textBuffer |-> textBuffer] = NewParser
                /\ Len(frames) = last.nframes
                /\ pout = <<>>
          /\ After(buffer, last.pos)
          /\ After(textBuffer, last.pos)
          /\ \A i \in (last.nframes + 1)..Len(frames) : After(frames[i].value, last.pos)

\* C27 witness: "a" was pushed and was pending (no frame had been returned)
\* when reset was called; the next push brought " " and returned it alone.
C27_Witness ==
    /\ resetAt = <<[pos |-> 1, nframes |-> 0]>>
    /\ Len(stream) >= 2
    /\ stream[1] = "a"
    /\ pos = 2
    /\ frames = <<TextFrame(<<<<" ", 2>>>>)>>
    /\ pout = frames

\* C27, in the chat window: the step that starts a generation request leaves
\* the parser empty, and the request has pushed nothing yet.
C27_SendResets ==
    [][\A r \in 1..MaxRequests :
          (req[r].pc = "idle" /\ req'[r].pc = "fetch") =>
             /\ buffer' = <<>>
             /\ textBuffer' = <<>>
             /\ req'[r].chunks = 0
      ]_vars

\* A second request has started while the first one's "a" was pending in
\* the parser: the parser is empty.
C27_SendWitness ==
    /\ req[2].pc = "fetch"
    /\ req[1].rx = <<"a">>
    /\ \A i \in 1..Len(messages) : messages[i].id = 1 => messages[i].content = <<>>
    /\ buffer = <<>>
    /\ textBuffer = <<>>

\* C28: a push with an empty, null or undefined chunk (the one step that
\* delivers nothing and is no flush and no reset) returns zero frames and
\* leaves both buffers as they were: pending text is not emitted.
C28_EmptyPush ==
    [][(pos' = pos /\ flushes' = flushes /\ resetAt' = resetAt) =>
          /\ pout' = <<>>
          /\ frames' = frames
          /\ buffer' = buffer
          /\ textBuffer' = textBuffer
      ]_vars

\* C28 witness: "a" was pending when the newline of an event line arrived on
\* its own; that push returned the event frame, the empty push after it
\* returned nothing and "a" is still pending.
C28_Witness ==
    /\ flushes = 0
    /\ pos = 17
    /\ stream[17] = NL
    /\ Len(frames) = 1
    /\ frames[1].type = "event"
    /\ pout = <<>>
    /\ textBuffer = <<<<"a", 1>>>>
    /\ buffer = <<>>

(* ------------------------------------------------------------------ *)
(* Claims about cancellation                                            *)
(* ------------------------------------------------------------------ *)

\* C29: the read loop checks cancellation at every iteration.  Once the
\* controller of request r has been aborted, the next step of r's loop leaves
\* the loop: it counts no further chunk, pushes nothing into the parser and
\* adds nothing to the text the messages are written from.
C29_ExitOnAbort ==
    [][\A r \in 1..MaxRequests :
          (req[r].pc = "read" /\ req[r].controller \in aborted /\ req'[r] # req[r]) =>
             /\ req'[r].pc = "ended"
             /\ req'[r].chunks = req[r].chunks
             /\ req'[r].rx = req[r].rx
             /\ buffer' = buffer
             /\ textBuffer' = textBuffer
             /\ textBufferRef' = textBufferRef
      ]_vars

\* C29 witness: request 1 had read one chunk when its controller was aborted
\* and request 2 was started; request 1's loop has just exited, without
\* another chunk.
C29_Witness ==
    /\ req[1].pc = "ended"
    /\ req[1].controller \in aborted
    /\ req[1].chunks = 1
    /\ req[2].pc = "fetch"
    /\ actor = 1

\* The controllers of the jobs that have ended.
EndedHandles(je) == {je[i].h : i \in 1..Len(je)}

\* The controller of the record job, if it is one.
HandleOf(job) == IF job = NoJob THEN {} ELSE {job.controller}

\* C30: every startJob returns a fresh handle, not cancelled at return;
\* abortJob, and the abort inside startJob, cancel only the handle of the job
\* that was active when the call was made, so never a handle returned later;
\* finishJob (and hasActiveJob, and the settling of a notification) cancel
\* none.
C30_FreshHandle ==
    [][/\ calls' = calls + 1 =>
             /\ lastCall'.name \in {"startJob", "abortJob"} =>
                   aborted' = aborted \cup HandleOf(currentChatJob)
             /\ lastCall'.name \in {"finishJob", "hasActiveJob"} => aborted' = aborted
             /\ lastCall'.name = "startJob" =>
                   /\ currentChatJob' # NoJob
                   /\ lastCall'.effects[Len(lastCall'.effects)] =
                         Eff("return", currentChatJob'.controller, currentChatJob'.sessionId)
                   /\ currentChatJob'.controller \notin aborted'
                   /\ currentChatJob'.controller \notin EndedHandles(jobEnd')
                   /\ currentChatJob'.controller \notin HandleOf(currentChatJob)
       /\ calls' = calls => aborted' = aborted
      ]_vars

\* C30 witness: a third startJob has just superseded the second job; the
\* first job had been finished.  The second handle is cancelled, the first
\* and the one just returned are not.
C30_Witness ==
    /\ lastCall.name = "startJob"
    /\ lastCall.prev # NoJob
    /\ lastCall.prev.controller = 2
    /\ currentChatJob # NoJob
    /\ currentChatJob.controller = 3
    /\ aborted = {2}
    /\ Len(jobEnd) = 2
    /\ jobEnd[1] = [h |-> 1, how |-> "finish"]

(* ------------------------------------------------------------------ *)
(* Scenario A                                                           *)
(* ------------------------------------------------------------------ *)

\* The chunks of scenario A: "Hello ", "wor", "ld" + the PROGRESS line with
\* its newline, " End."
ScenarioACuts == {6, 9, 27, 32}

\* The frames scenario A expects, as characters: text that concatenates to
\* "Hello world", exactly one PROGRESS event, the text " End.".
ScenarioAFrames(fs) ==
    /\ Len(fs) >= 3
    /\ fs[Len(fs)].type = "text"
    /\ Chars(fs[Len(fs)].value) = <<" ", "E", "n", "d", ".">>
    /\ fs[Len(fs) - 1].type = "event"
    /\ fs[Len(fs) - 1].evt = "PROGRESS"
    /\ Chars(fs[Len(fs) - 1].value) = UI_EVENT_PREFIX \o <<"{", "<PROGRESS>", "}">>
    /\ \A i \in 1..(Len(fs) - 2) : fs[i].type = "text"
    /\ TextOf(SubSeq(fs, 1, Len(fs) - 2)) = <<"H", "e", "l", "l", "o", " ", "w", "o", "r", "l", "d">>

\* C31 as stated: after the chunks of scenario A and the flush, the frames
\* are those of the scenario, and " End." is the frame the flush returned.
C31_ScenarioA ==
    (cuts = ScenarioACuts /\ flushes = 1) =>
       /\ ScenarioAFrames(frames)
       /\ pout = <<frames[Len(frames)]>>

\* C31, amended: the frames and their order are those of the scenario, but
\* " End." is returned by the push that received it (it ends with "."), and
\* the flush returns nothing.
C31_ScenarioA_PushEmits ==
    cuts = ScenarioACuts =>
       /\ (pos = 32 /\ flushes = 0) =>
             /\ ScenarioAFrames(frames)
             /\ pout = <<frames[Len(frames)]>>
       /\ flushes >= 1 =>
             /\ ScenarioAFrames(frames)
             /\ pout = <<>>

\* C31 witness: the four chunks of scenario A were pushed and flush was
\* called; the frames are "Hello ", "world", the event, " End.".
C31_Witness ==
    /\ cuts = ScenarioACuts
    /\ flushes = 1
    /\ Len(frames) = 4
    /\ Chars(frames[1].value) = <<"H", "e", "l", "l", "o", " ">>
    /\ Chars(frames[2].value) = <<"w", "o", "r", "l", "d">>

(* ------------------------------------------------------------------ *)
(* Claims about the chat window and the job manager together            *)
(* ------------------------------------------------------------------ *)

\* Request r's generation attempt has ended (generateAIResponse returned).
Ended(r) == req[r].pc = "ended"

\* No generation attempt is under way.
NoneRunning == \A r \in 1..MaxRequests : req[r].pc \in {"idle", "ended"}

\* hasActiveJob() is false whenever no generation attempt is under way.
C32_NoJobLeft == NoneRunning' => ~hasActiveJob(JMState)'

\* No abort notification is issued for the job of an attempt that had ended
\* with its controller not aborted.
C32_NoLateNotify ==
    \A i \in (Len(notifications) + 1)..Len(notifications') :
       \A r \in 1..MaxRequests :
          (Ended(r) /\ req[r].controller = notifications'[i].job) =>
             req[r].controller \in aborted

\* C32: job clean-up on every ending.  After a generation attempt has ended
\* in any way, hasActiveJob() is false, and a job that ended without abort
\* never causes an abort notification later.
C32_JobCleanUp == [][C32_NoJobLeft /\ C32_NoLateNotify]_vars

C32_NoLateNotifyOnly == [][C32_NoLateNotify]_vars

\* C33: force stop.  After handleStop returns no message of the conversation
\* is left in status typing or streaming.
C33_ForceStop ==
    [][Stop => \A i \in 1..Len(messages') : ~IsLive(messages'[i])]_vars

\* C34: cancellability.  While a request's read loop is running and its
\* controller is not aborted, the job manager's record holds that
\* controller, so that abortJob() cancels it.
C34_Cancellable ==
    \A r \in 1..MaxRequests :
       (req[r].pc = "read" /\ req[r].controller \notin aborted) =>
          /\ currentChatJob # NoJob
          /\ currentChatJob.controller = req[r].controller

(* ------------------------------------------------------------------ *)
(* Invariants of the stream parser's buffers                            *)
(* ------------------------------------------------------------------ *)

\* C35: after every push (and flush) the raw lookahead buffer is empty, or
\* it starts with the marker and holds no newline: one incomplete event
\* candidate.
C35_RawBuffer ==
    \/ buffer = <<>>
    \/ /\ StartsWith(Chars(buffer), UI_EVENT_PREFIX)
       /\ \A k \in 1..Len(buffer) : buffer[k][1] # NL

\* C35 witness: the push that returned the text before a marker kept the
\* marker and the whole object after it, the newline still missing.
C35_Witness ==
    /\ Chars(buffer) = UI_EVENT_PREFIX \o ValidBody
    /\ Len(pout) = 1
    /\ pout[1].type = "text"
    /\ flushes = 0

\* The text ends with whitespace or one of . , ! ? optionally followed by
\* whitespace.
EndsAtBreak(cs) ==
    \E k \in 1..Len(cs) :
       /\ cs[k][1] \in {" ", NL, ".", ",", "!", "?"}
       /\ \A j \in (k + 1)..Len(cs) : cs[j][1] \in {" ", NL}

\* C36: bounded hold-back.  After every push the pending-text buffer holds at
\* most 20 characters and does not end at a break; and when the chunk brings
\* no marker, pending text plus chunk that exceeds 20 characters or ends at a
\* break is returned by that push, as one text frame.
C36_BoundedHoldBack ==
    [][pos' > pos =>
          /\ Len(textBuffer') <= 20
          /\ ~EndsAtBreak(textBuffer')
          /\ \A chunk \in {StreamCells(stream, pos, pos')} :
                (IndexOf(Chars(buffer \o chunk), UI_EVENT_PREFIX) = -1) =>
                   \A tb \in {textBuffer \o buffer \o chunk} :
                      (Len(tb) > 20 \/ EndsAtBreak(tb)) =>
                         /\ pout' = <<TextFrame(tb)>>
                         /\ textBuffer' = <<>>
      ]_vars

\* C36 witness: a push has returned more than 20 characters of text that do
\* not end at a break, because of their number alone.
C36_Witness ==
    /\ flushes = 0
    /\ Len(pout) = 1
    /\ pout[1].type = "text"
    /\ Len(pout[1].value) > 20
    /\ ~EndsAtBreak(pout[1].value)
    /\ textBuffer = <<>>
    /\ buffer = <<>>

(* ------------------------------------------------------------------ *)
(* Claims about the API client                                          *)
(* ------------------------------------------------------------------ *)

\* C37: retry respects cancellation.  One streamChat call issues at most 3
\* requests; once the signal is aborted, during an attempt or during a
\* back-off sleep, it issues no further request, and the call's next step
\* rejects.
C37_RetryRespectsAbort ==
    [][/\ api'.fetches <= 3
       /\ api.aborted =>
             /\ api'.fetches = api.fetches
             /\ (api.pc \in {"fetch", "sleep"} /\ api'.pc # api.pc) => api'.pc = "rejected"
      ]_vars

\* C37 witness: the first attempt failed, and the signal was aborted during
\* the back-off: the call has rejected after one request.
C37_Witness ==
    /\ api.pc = "rejected"
    /\ api.aborted
    /\ api.fetches = 1
    /\ Len(api.log) = 1
    /\ api.log[1].event = "api_retry"

(* ------------------------------------------------------------------ *)
(* Claims about the upload hook                                         *)
(* ------------------------------------------------------------------ *)

\* A startUpload call later than u has begun.
NewerBegun(u) == \E v \in (u + 1)..MaxUploads : upl.up[v].pc # "idle"

\* C38: upload generation guard.  Once a newer startUpload has begun, no
\* progress, success or error callback is invoked on behalf of an older
\* upload: a step taken for an upload that has a newer one invokes nothing.
C38_GenerationGuard ==
    \A k \in 1..Len(upl.cbs) : ~NewerBegun(upl.cbs[k].u)

\* C38 witness: the first upload resolved after the second had begun, and
\* invoked no callback.
C38_Witness ==
    /\ upl.last = [op |-> "resolved", u |-> 1]
    /\ upl.up[2].pc = "uploading"
    /\ upl.up[1].events = 1
    /\ upl.cbs = <<>>


(* C39: persistence never restores a live status.  Whatever was stored, no
   message returned by loadChats has status typing or streaming or carries a
   progress value; a stored value that does not parse or is no array gives
   the empty list and removes the key; and two loads in a row return the
   same chats. *)
C39_NoLiveStatus ==
    \A n \in 1..Len(store.returned) :
        \A i \in 1..Len(store.returned[n]) :
            \A k \in 1..Len(store.returned[n][i].messages) :
                LET m == store.returned[n][i].messages[k]
                IN  /\ m.status \notin {"typing", "streaming"}
                    /\ m.progress = "undefined"

C39_BadValueRemoved ==
    (store.loads >= 1 /\ store.stored.kind \in {"garbage", "other"})
        => /\ store.returned[1] = <<>>
           /\ store.loads = 1 => store.item.kind = "missing"

C39_LoadTwiceSame ==
    Len(store.returned) = 2 => store.returned[2] = store.returned[1]

C39_Persistence ==
    /\ C39_NoLiveStatus
    /\ C39_BadValueRemoved
    /\ C39_LoadTwiceSame

\* the two parts of C39 that do not compare two loads
C39_FirstLoad ==
    /\ C39_NoLiveStatus
    /\ C39_BadValueRemoved

C39_Witness ==
    /\ store.loads = 2
    /\ store.stored.kind = "array"
    /\ Len(store.stored.chats) = 1
    /\ Len(store.stored.chats[1].messages) = 1
    /\ store.stored.chats[1].messages[1].status = "streaming"
    /\ store.stored.chats[1].messages[1].progress = "50"
    /\ store.returned[1][1].messages[1].status = "done"

====
